---- MODULE Spec2Model ----
(***************************************************************************)
(* A model of the cyclic doubly-linked list of cyclic_list (feature        *)
(* "length" enabled): the ring of nodes around a ghost node, the List      *)
(* operations, the CursorMut operations and the in-place merge sort.       *)
(*                                                                         *)
(* Nodes are integers.  Element nodes are 1..MaxNodes, the ghost node of   *)
(* list l is the negative number -l and NULL (0) stands for a link that    *)
(* was never written (Node::new_detached leaves next/prev uninitialised)   *)
(* or that belongs to a freed node.                                        *)
(*                                                                         *)
(* Every function of the source is an operator on a machine record         *)
(*   [next, prev, elem, alloc, len, cur, idx, ret]                         *)
(* holding the heap (next, prev, elem, alloc), the len field of each list, *)
(* the fields of the cursor the function runs on (cur = current,           *)
(* idx = index) and the value it returns (ret).                            *)
(***************************************************************************)
EXTENDS Integers, Sequences, FiniteSets, TLC

\* Most element nodes alive at once in Spec.
MaxElems == 3
\* Longest list given to the sort in SpecSort.
SortMaxLen == 9
\* Most read-only borrows of one kind alive at once in SpecBorrow.
MaxReaders == 2

INSERTION_SORT_THRESHOLD == 8

NULL == 0
NoElem == 0 - 1

MaxNodes == IF MaxElems > SortMaxLen THEN MaxElems ELSE SortMaxLen
ElemNodes == 1..MaxNodes
Lists == {1, 2}
\* The element type T of the lists of Spec and SpecIter.
Values == {0, 1}

ghost_node(l) == 0 - l

\* The slot of a list that a call builds and drops before it returns.
Temp == 3
Ghosts == {ghost_node(l) : l \in Lists \cup {Temp}}
Nodes == ElemNodes \cup Ghosts

None == <<"None">>
Some(x) == <<"Some", x>>
Ok == <<"Ok">>
Err(x) == <<"Err", x>>
Unit == <<"Unit">>
Panic == <<"Panic">>

VARIABLES next, prev, elem, alloc, len, cursor, op, iter, input, readers, failed

vars == <<next, prev, elem, alloc, len, cursor, op, iter, input, readers, failed>>

----------------------------------------------------------------------------
(* The ring core: src/src/list/mod.rs *)

front_node(m, l) == m.next[ghost_node(l)]

back_node(m, l) == m.prev[ghost_node(l)]

\* connect that forgets the back link.
connect_no_prev(m, p, n) == [m EXCEPT !.next[p] = n]

connect(m, p, n) == [m EXCEPT !.next[p] = n, !.prev[n] = p]

\* detach_node that forgets to count the node off.
detach_node_keep_len(m, l, node) == connect(m, m.prev[node], m.next[node])

\* The node stays allocated: it is the Box the caller receives.
detach_node(m, l, node) ==
  LET m1 == [m EXCEPT !.len[l] = @ - 1]
  IN  connect(m1, m1.prev[node], m1.next[node])

\* assert_adjacent under cfg(debug_assertions): failed lists the assertions
\* that did not hold during the call.
assert_adjacent(m, p, n) ==
  IF m.next[p] = n /\ m.prev[n] = p THEN m
  ELSE [m EXCEPT !.failed = @ \cup {"assert_adjacent"}]

attach_node(m, l, p, n, node) ==
  LET m0 == assert_adjacent(m, p, n)
      m1 == connect(m0, p, node)
      m2 == connect(m1, node, n)
      m3 == [m2 EXCEPT !.len[l] = @ + 1]
  IN  assert_adjacent(assert_adjacent(m3, p, node), node, n)

DetachedNodes(front, back, n) == [front |-> front, back |-> back, len |-> n]

\* The number of nodes of front..=back, following at most k next links.
RECURSIVE RangeLen(_, _, _, _)
RangeLen(m, front, back, k) ==
  IF front = back THEN 1
  ELSE IF k = 0 \/ front = NULL THEN 0
  ELSE LET r == RangeLen(m, m.next[front], back, k - 1) IN IF r = 0 THEN 0 ELSE r + 1

\* DetachedNodes::new: the debug_assert on len, and what its safety comment
\* requires of len.
DetachedNodes_new(m, front, back, n) ==
  [m EXCEPT !.failed = @ \cup (IF n > 0 THEN {} ELSE {"len > 0"})
                         \cup (IF n = RangeLen(m, front, back, MaxNodes)
                                 THEN {} ELSE {"len of front..=back"})]

\* detach_nodes that also clears the next link of the front node.
detach_nodes_cleared(m, l, front, back, n) ==
  LET m1 == [m EXCEPT !.len[l] = @ - n]
      m2 == connect(m1, m1.prev[front], m1.next[back])
  IN  DetachedNodes_new([m2 EXCEPT !.next[front] = NULL], front, back, n)

\* The heap after the detach; the DetachedNodes value is built by the caller.
detach_nodes(m, l, front, back, n) ==
  LET m1 == [m EXCEPT !.len[l] = @ - n]
      m2 == connect(m1, m1.prev[front], m1.next[back])
  IN  DetachedNodes_new(m2, front, back, n)

\* attach_nodes that links in the front node of the chain only.
attach_nodes_front_only(m, l, p, n, detached) ==
  LET m1 == connect(m, p, detached.front)
      m2 == connect(m1, detached.front, n)
  IN  [m2 EXCEPT !.len[l] = @ + detached.len]

attach_nodes(m, l, p, n, detached) ==
  LET m0 == assert_adjacent(m, p, n)
      m1 == connect(m0, p, detached.front)
      m2 == connect(m1, detached.back, n)
      m3 == [m2 EXCEPT !.len[l] = @ + detached.len]
  IN  assert_adjacent(assert_adjacent(m3, p, detached.front), detached.back, n)

is_empty(m, l) == front_node(m, l) = ghost_node(l)

\* List::new with new_ghost: the ghost is linked to itself, len is 0.
new(m, l) ==
  [m EXCEPT !.next[ghost_node(l)] = ghost_node(l),
            !.prev[ghost_node(l)] = ghost_node(l),
            !.len[l] = 0]

\* Some(detached) or None, together with the heap after the detach.
detach_all_nodes(m, l) ==
  IF is_empty(m, l)
    THEN [m EXCEPT !.ret = None]
    ELSE [detach_nodes(m, l, front_node(m, l), back_node(m, l), m.len[l])
            EXCEPT !.ret = Some(DetachedNodes(front_node(m, l), back_node(m, l), m.len[l]))]

\* The new list is built in the slot l, which holds no list before.
from_detached(m, l, detached) ==
  attach_nodes(new(m, l), l, ghost_node(l), ghost_node(l), detached)

\* The allocator hands out the free node of least address.
NewNode(m) ==
  CHOOSE n \in ElemNodes \ m.alloc : \A k \in ElemNodes \ m.alloc : n <= k

new_detached(m, node, element) ==
  [m EXCEPT !.alloc = @ \cup {node}, !.elem[node] = element]

\* Dropping the Box<Node<T>> of a detached node; freed lists the nodes whose
\* Box was dropped during the call, in the order of the drops.
drop_node(m, node) ==
  [m EXCEPT !.alloc = @ \ {node}, !.elem[node] = NoElem,
            !.next[node] = NULL, !.prev[node] = NULL,
            !.freed = Append(@, node)]

----------------------------------------------------------------------------
(* Cursors: src/src/list/cursor.rs.  l is the list the cursor borrows. *)

is_ghost_node(m, l) == m.cur = ghost_node(l)

next_node(m) == m.next[m.cur]

prev_node(m) == m.prev[m.cur]

is_front_node(m, l) == prev_node(m) = ghost_node(l)

\* A move_next_cyclic that counts on when it leaves the ghost.
move_next_cyclic_no_wrap(m, l) ==
  IF is_empty(m, l) THEN m
  ELSE [m EXCEPT !.idx = @ + 1, !.cur = next_node(m)]

move_next_cyclic(m, l) ==
  IF is_empty(m, l) THEN m
  ELSE [m EXCEPT !.idx = IF is_ghost_node(m, l) THEN 0 ELSE @ + 1,
                 !.cur = next_node(m)]

move_prev_cyclic(m, l) ==
  IF is_empty(m, l) THEN m
  ELSE [m EXCEPT !.idx = IF is_front_node(m, l) THEN m.len[l] ELSE @ - 1,
                 !.cur = prev_node(m)]

\* A move_next that does not look for the ghost.
move_next_unchecked(m, l) == [move_next_cyclic(m, l) EXCEPT !.ret = Ok]

move_next(m, l) ==
  IF ~is_empty(m, l) /\ ~is_ghost_node(m, l)
    THEN [move_next_cyclic(m, l) EXCEPT !.ret = Ok]
    ELSE [m EXCEPT !.ret = Err("move_next")]

move_prev(m, l) ==
  IF ~is_empty(m, l) /\ ~is_front_node(m, l)
    THEN [move_prev_cyclic(m, l) EXCEPT !.ret = Ok]
    ELSE [m EXCEPT !.ret = Err("move_prev")]

RECURSIVE seek_forward_from(_, _, _, _)
seek_forward_from(m, l, i, steps) ==
  IF i = steps THEN [m EXCEPT !.ret = Ok]
  ELSE LET m1 == move_next(m, l)
       IN  IF m1.ret = Ok THEN seek_forward_from(m1, l, i + 1, steps)
           ELSE [m1 EXCEPT !.ret = Err(i)]

\* A seek_forward that takes the cursor back where it was when it fails.
seek_forward_rolled_back(m, l, steps) ==
  LET r == seek_forward_from(m, l, 0, steps)
  IN  IF r.ret = Ok THEN r ELSE [m EXCEPT !.ret = r.ret]

seek_forward(m, l, steps) == seek_forward_from(m, l, 0, steps)

RECURSIVE seek_backward_from(_, _, _, _)
seek_backward_from(m, l, i, steps) ==
  IF i = steps THEN [m EXCEPT !.ret = Ok]
  ELSE LET m1 == move_prev(m, l)
       IN  IF m1.ret = Ok THEN seek_backward_from(m1, l, i + 1, steps)
           ELSE [m1 EXCEPT !.ret = Err(i)]

seek_backward(m, l, steps) == seek_backward_from(m, l, 0, steps)

\* links counts the next and prev links that the moves of try_seek_to read:
\* one for each step of a fast seek, one for the front_node() of
\* move_to_start, which is the next link of the ghost.
RECURSIVE walk_next(_, _)
walk_next(m, steps) ==
  IF steps = 0 THEN m
  ELSE walk_next([m EXCEPT !.cur = next_node(m), !.links = @ + 1], steps - 1)

RECURSIVE walk_prev(_, _)
walk_prev(m, steps) ==
  IF steps = 0 THEN m
  ELSE walk_prev([m EXCEPT !.cur = prev_node(m), !.links = @ + 1], steps - 1)

seek_forward_fast(m, steps) == walk_next([m EXCEPT !.idx = @ + steps], steps)

\* A seek_backward_fast that walks and leaves the index as it was.
seek_backward_fast_no_index(m, steps) == walk_prev(m, steps)

seek_backward_fast(m, steps) ==
  walk_prev([m EXCEPT !.idx = IF steps > @ THEN 0 ELSE @ - steps], steps)

move_to_start(m, l) ==
  [m EXCEPT !.idx = 0, !.cur = front_node(m, l), !.links = @ + 1]

move_to_end(m, l) == [m EXCEPT !.idx = m.len[l], !.cur = ghost_node(l)]

\* A try_seek_to that leaves the cursor at the end when the target is too far.
try_seek_to_clamped(m, l, target) ==
  LET n == m.len[l] IN
  IF target = m.idx THEN [m EXCEPT !.ret = Ok]
  ELSE IF target > n THEN [move_to_end(m, l) EXCEPT !.ret = Err(target)]
  ELSE IF target = 0 THEN [move_to_start(m, l) EXCEPT !.ret = Ok]
  ELSE IF target = n THEN [move_to_end(m, l) EXCEPT !.ret = Ok]
  ELSE IF target > m.idx
    THEN IF target - m.idx <= n - target
           THEN [seek_forward_fast(m, target - m.idx) EXCEPT !.ret = Ok]
           ELSE [seek_backward_fast(move_to_end(m, l), n - target) EXCEPT !.ret = Ok]
    ELSE IF m.idx - target <= target
           THEN [seek_backward_fast(m, m.idx - target) EXCEPT !.ret = Ok]
           ELSE [seek_forward_fast(move_to_start(m, l), target) EXCEPT !.ret = Ok]

\* A try_seek_to whose error is how far the target is beyond the len.
try_seek_to_overshoot(m, l, target) ==
  LET n == m.len[l] IN
  IF target = m.idx THEN [m EXCEPT !.ret = Ok]
  ELSE IF target > n THEN [m EXCEPT !.ret = Err(target - n)]
  ELSE IF target = 0 THEN [move_to_start(m, l) EXCEPT !.ret = Ok]
  ELSE IF target = n THEN [move_to_end(m, l) EXCEPT !.ret = Ok]
  ELSE IF target > m.idx
    THEN IF target - m.idx <= n - target
           THEN [seek_forward_fast(m, target - m.idx) EXCEPT !.ret = Ok]
           ELSE [seek_backward_fast(move_to_end(m, l), n - target) EXCEPT !.ret = Ok]
    ELSE IF m.idx - target <= target
           THEN [seek_backward_fast(m, m.idx - target) EXCEPT !.ret = Ok]
           ELSE [seek_forward_fast(move_to_start(m, l), target) EXCEPT !.ret = Ok]

\* A try_seek_to that always walks from where the cursor is.
try_seek_to_direct(m, l, target) ==
  LET n == m.len[l] IN
  IF target = m.idx THEN [m EXCEPT !.ret = Ok]
  ELSE IF target > n THEN [m EXCEPT !.ret = Err(target)]
  ELSE IF target > m.idx
    THEN [seek_forward_fast(m, target - m.idx) EXCEPT !.ret = Ok]
    ELSE [seek_backward_fast(m, m.idx - target) EXCEPT !.ret = Ok]

try_seek_to(m, l, target) ==
  LET n == m.len[l] IN
  IF target = m.idx THEN [m EXCEPT !.ret = Ok]
  ELSE IF target > n THEN [m EXCEPT !.ret = Err(target)]
  ELSE IF target = 0 THEN [move_to_start(m, l) EXCEPT !.ret = Ok]
  ELSE IF target = n THEN [move_to_end(m, l) EXCEPT !.ret = Ok]
  ELSE IF target > m.idx
    THEN IF target - m.idx <= n - target
           THEN [seek_forward_fast(m, target - m.idx) EXCEPT !.ret = Ok]
           ELSE [seek_backward_fast(move_to_end(m, l), n - target) EXCEPT !.ret = Ok]
    ELSE IF m.idx - target <= target
           THEN [seek_backward_fast(m, m.idx - target) EXCEPT !.ret = Ok]
           ELSE [seek_forward_fast(move_to_start(m, l), target) EXCEPT !.ret = Ok]

\* try_seek_to(target).expect(..): a target beyond the len panics.
seek_to(m, l, target) ==
  LET r == try_seek_to(m, l, target)
  IN  IF r.ret = Ok THEN [r EXCEPT !.ret = Unit] ELSE [r EXCEPT !.ret = Panic]

current(m, l) == IF is_ghost_node(m, l) THEN None ELSE Some(m.elem[m.cur])

\* A previous that looks for the ghost where it should look for the front.
previous_none_at_ghost(m, l) ==
  IF is_ghost_node(m, l) THEN None ELSE Some(m.elem[prev_node(m)])

previous(m, l) == IF is_front_node(m, l) THEN None ELSE Some(m.elem[prev_node(m)])

\* attach_node is given the adjacent pair (next.prev, next).
insert_before(m, l, n, item) ==
  LET node == NewNode(m)
      m1 == new_detached(m, node, item)
  IN  attach_node(m1, l, m1.prev[n], n, node)

\* An insert that leaves the index as it was.
insert_keep_index(m, l, item) ==
  [insert_before(m, l, m.cur, item) EXCEPT !.ret = Unit]

\* An insert that leaves the cursor on the inserted node.
insert_onto_inserted(m, l, item) ==
  [insert_before(m, l, m.cur, item) EXCEPT !.cur = NewNode(m), !.ret = Unit]

insert(m, l, item) ==
  [insert_before(m, l, m.cur, item) EXCEPT !.idx = @ + 1, !.ret = Unit]

\* A remove that leaves the cursor on the node before the removed one.
remove_onto_prev(m, l) ==
  IF is_ghost_node(m, l) THEN [m EXCEPT !.ret = None]
  ELSE LET node == m.cur
           m1 == detach_node(m, l, node)
           m2 == [m1 EXCEPT !.cur = prev_node(m1)]
       IN  [drop_node(m2, node) EXCEPT !.ret = Some(m.elem[node])]

\* current is read through the detached node, which is freed on return.
remove(m, l) ==
  IF is_ghost_node(m, l) THEN [m EXCEPT !.ret = None]
  ELSE LET node == m.cur
           m1 == detach_node(m, l, node)
           m2 == [m1 EXCEPT !.cur = next_node(m1)]
       IN  [drop_node(m2, node) EXCEPT !.ret = Some(m.elem[node])]

\* A backspace that removes the current element.
backspace_at_current(m, l) == remove(m, l)

backspace(m, l) ==
  LET m1 == move_prev(m, l)
  IN  IF m1.ret = Ok THEN remove(m1, l) ELSE [m1 EXCEPT !.ret = None]

\* A split that leaves the cursor on the node it was on.
split_keep_current(m, l, r) ==
  IF is_ghost_node(m, l) THEN [m EXCEPT !.ret = None]
  ELSE LET n == m.len[l] - m.idx
           back == back_node(m, l)
           m2 == detach_nodes(m, l, m.cur, back, n)
       IN  [from_detached(m2, r, DetachedNodes(m.cur, back, n)) EXCEPT !.ret = Some(r)]

\* The list split off is built in the slot r; ret tells whether there is one.
split(m, l, r) ==
  IF is_ghost_node(m, l) THEN [m EXCEPT !.ret = None]
  ELSE LET n == m.len[l] - m.idx
           cur0 == m.cur
           m1 == [m EXCEPT !.cur = ghost_node(l)]
           back == back_node(m1, l)
           m2 == detach_nodes(m1, l, cur0, back, n)
       IN  [from_detached(m2, r, DetachedNodes(cur0, back, n)) EXCEPT !.ret = Some(r)]

\* split_before that leaves the index of the cursor as it was.
split_before_keep_index(m, l, r) ==
  IF is_front_node(m, l) THEN [m EXCEPT !.ret = None]
  ELSE LET n == m.idx
           front == front_node(m, l)
           back == prev_node(m)
           m2 == detach_nodes(m, l, front, back, n)
       IN  [from_detached(m2, r, DetachedNodes(front, back, n)) EXCEPT !.ret = Some(r)]

split_before(m, l, r) ==
  IF is_front_node(m, l) THEN [m EXCEPT !.ret = None]
  ELSE LET n == m.idx
           m1 == [m EXCEPT !.idx = 0]
           front == front_node(m1, l)
           back == prev_node(m1)
           m2 == detach_nodes(m1, l, front, back, n)
       IN  [from_detached(m2, r, DetachedNodes(front, back, n)) EXCEPT !.ret = Some(r)]

\* splice that leaves the index of the cursor as it was.
splice_keep_index(m, l, o) ==
  LET m1 == detach_all_nodes(m, o)
  IN  IF m1.ret = None THEN [m1 EXCEPT !.ret = Unit]
      ELSE LET detached == m1.ret[2]
           IN  [attach_nodes(m1, l, m1.prev[m1.cur], m1.cur, detached)
                  EXCEPT !.ret = Unit]

\* other is the list in the slot o; it is consumed and the slot left empty.
splice(m, l, o) ==
  LET m1 == detach_all_nodes(m, o)
  IN  IF m1.ret = None THEN [m1 EXCEPT !.ret = Unit]
      ELSE LET detached == m1.ret[2]
               m2 == [m1 EXCEPT !.idx = @ + detached.len]
           IN  [attach_nodes(m2, l, m2.prev[m2.cur], m2.cur, detached)
                  EXCEPT !.ret = Unit]

----------------------------------------------------------------------------
(* List operations: src/src/list/mod.rs.  Each one builds its own cursor. *)

cursor_start_mut(m, l) == [m EXCEPT !.cur = front_node(m, l), !.idx = 0]

cursor_end_mut(m, l) == [m EXCEPT !.cur = ghost_node(l), !.idx = m.len[l]]

\* assert!(at <= self.len) and the expect() panic before anything changes.
cursor_mut(m, l, at) ==
  IF at > m.len[l] THEN [m EXCEPT !.ret = Panic]
  ELSE LET m1 == try_seek_to(cursor_start_mut(m, l), l, at)
       IN  IF m1.ret = Ok THEN m1 ELSE [m EXCEPT !.ret = Panic]

front(m, l) == current(cursor_start_mut(m, l), l)

back(m, l) == previous(cursor_end_mut(m, l), l)

push_front(m, l, elt) == insert(cursor_start_mut(m, l), l, elt)

pop_front(m, l) ==
  IF is_empty(m, l) THEN [m EXCEPT !.ret = None]
  ELSE remove(cursor_start_mut(m, l), l)

push_back(m, l, elt) == insert(cursor_end_mut(m, l), l, elt)

\* pop_back that takes its cursor at the start of the list.
pop_back_at_start(m, l) ==
  IF is_empty(m, l) THEN [m EXCEPT !.ret = None]
  ELSE backspace(cursor_start_mut(m, l), l)

pop_back(m, l) ==
  IF is_empty(m, l) THEN [m EXCEPT !.ret = None]
  ELSE backspace(cursor_end_mut(m, l), l)

\* CursorMut::push_front, pop_front, push_back, pop_back: the call on the
\* list makes a cursor of its own; the fields of this cursor are those the
\* code assigns.
CursorMut_push_front(m, l, item) ==
  [push_front(m, l, item) EXCEPT !.cur = m.cur, !.idx = m.idx + 1, !.ret = Unit]

CursorMut_pop_front(m, l) ==
  IF is_empty(m, l) THEN [m EXCEPT !.ret = None]
  ELSE LET is_front == is_front_node(m, l)
           m1 == pop_front(m, l)
       IN  [m1 EXCEPT !.cur = IF is_front THEN front_node(m1, l) ELSE m.cur,
                      !.idx = IF is_front THEN m.idx ELSE m.idx - 1]

CursorMut_push_back(m, l, item) ==
  [push_back(m, l, item) EXCEPT !.cur = m.cur, !.idx = m.idx, !.ret = Unit]

CursorMut_pop_back(m, l) ==
  [pop_back(m, l) EXCEPT !.cur = m.cur, !.idx = m.idx]

\* clear that stops after the first pop.
clear_one(m, l) ==
  LET m1 == pop_front(m, l)
  IN  IF m1.ret = None THEN [m1 EXCEPT !.ret = Unit]
      ELSE [m1 EXCEPT !.dropped = Append(@, m1.ret[2]), !.ret = Unit]

\* clear that pops from the back.
RECURSIVE clear_from_back(_, _)
clear_from_back(m, l) ==
  LET m1 == pop_back(m, l)
  IN  IF m1.ret = None THEN [m1 EXCEPT !.ret = Unit]
      ELSE LET m2 == [m1 EXCEPT !.dropped = Append(@, m1.ret[2])]
           IN  IF m1.ret[2] \in m.panics THEN [m2 EXCEPT !.ret = Panic]
               ELSE clear_from_back(m2, l)

\* The Option<T> that pop_front returns is dropped at the end of the loop
\* condition: the destructor of the element runs (dropped lists the elements
\* in the order their destructors ran), and when it panics the loop is left
\* by unwinding.
RECURSIVE clear(_, _)
clear(m, l) ==
  LET m1 == pop_front(m, l)
  IN  IF m1.ret = None THEN [m1 EXCEPT !.ret = Unit]
      ELSE LET m2 == [m1 EXCEPT !.dropped = Append(@, m1.ret[2])]
           IN  IF m1.ret[2] \in m.panics THEN [m2 EXCEPT !.ret = Panic]
               ELSE clear(m2, l)

\* Drop for List: clear(), then the Box of the ghost is dropped with the
\* fields of the list, also when clear() unwinds.
drop(m, l) == clear(m, l)

\* append that attaches the nodes of other after the ghost.
append_at_front(m, l, o) ==
  LET m1 == detach_all_nodes(m, o)
  IN  IF m1.ret = None THEN [m1 EXCEPT !.ret = Unit]
      ELSE [attach_nodes(m1, l, ghost_node(l), front_node(m1, l), m1.ret[2])
              EXCEPT !.ret = Unit]

append(m, l, o) ==
  LET m1 == detach_all_nodes(m, o)
  IN  IF m1.ret = None THEN [m1 EXCEPT !.ret = Unit]
      ELSE [attach_nodes(m1, l, back_node(m1, l), ghost_node(l), m1.ret[2])
              EXCEPT !.ret = Unit]

prepend(m, l, o) ==
  LET m1 == detach_all_nodes(m, o)
  IN  IF m1.ret = None THEN [m1 EXCEPT !.ret = Unit]
      ELSE [attach_nodes(m1, l, ghost_node(l), front_node(m1, l), m1.ret[2])
              EXCEPT !.ret = Unit]

\* The list returned is built in the slot r; unwrap_or_default gives List::new().
split_off(m, l, r, at) ==
  IF at > m.len[l] THEN [m EXCEPT !.ret = Panic]
  ELSE IF at = m.len[l] THEN [new(m, r) EXCEPT !.ret = Some(r)]
  ELSE LET c == cursor_mut(m, l, at)
       IN  IF c.ret = Panic THEN c
           ELSE LET m1 == split(c, l, r)
                IN  IF m1.ret = None THEN [new(m1, r) EXCEPT !.ret = Some(r)] ELSE m1

\* remove that pops the back element before it panics.
list_remove_late_panic(m, l, at) ==
  IF ~(at < m.len[l]) THEN [pop_back(m, l) EXCEPT !.ret = Panic]
  ELSE LET c == cursor_mut(m, l, at)
       IN  IF c.ret = Panic THEN c
           ELSE LET m1 == remove(c, l)
                IN  IF m1.ret = None THEN [m EXCEPT !.ret = Panic] ELSE m1

list_remove(m, l, at) ==
  IF ~(at < m.len[l]) THEN [m EXCEPT !.ret = Panic]
  ELSE LET c == cursor_mut(m, l, at)
       IN  IF c.ret = Panic THEN c
           ELSE LET m1 == remove(c, l)
                IN  IF m1.ret = None THEN [m EXCEPT !.ret = Panic] ELSE m1

list_insert(m, l, at, elm) ==
  IF at > m.len[l] THEN [m EXCEPT !.ret = Panic]
  ELSE LET c == cursor_mut(m, l, at)
       IN  IF c.ret = Panic THEN c ELSE insert(c, l, elm)

\* splice_at that splices at the front whatever at is.
splice_at_start(m, l, at, o) ==
  IF at > m.len[l] THEN [m EXCEPT !.ret = Panic]
  ELSE splice(cursor_start_mut(m, l), l, o)

\* other is owned by the call: a panic drops it while unwinding.
splice_at(m, l, at, o) ==
  IF at > m.len[l] THEN [drop(m, o) EXCEPT !.ret = Panic]
  ELSE LET c == seek_forward(cursor_start_mut(m, l), l, at)
       IN  IF c.ret # Ok THEN [drop(m, o) EXCEPT !.ret = Panic] ELSE splice(c, l, o)

----------------------------------------------------------------------------
(* The sort engine: src/src/list/algorithms/sort.rs.  less is named by the *)
(* adapter that derives it: sort is a < b, sort_by_key is f(a) < f(b) for  *)
(* the key f(x) = x.abs(), sort_by is compare(a, b) == Less for the        *)
(* reversed order compare(a, b) = b.cmp(a).                                *)

SortKinds == {"sort", "sort_by_key", "sort_by"}

KeyOf(x) == IF x < 0 THEN 0 - x ELSE x

\* A comparison that answers true on a tie.
less_or_equal(kind, a, b) ==
  CASE kind = "sort" -> a <= b
    [] kind = "sort_by_key" -> KeyOf(a) <= KeyOf(b)
    [] kind = "sort_by" -> b <= a

\* Closures given to sort_by that are not strict weak orders: one that is
\* always true, one that is true on equal elements, and one that is not
\* transitive (-1 < 0 < 1 < -1).
LessKinds == {"less_always", "less_reflexive", "less_cyclic"}

less(kind, a, b) ==
  CASE kind = "sort" -> a < b
    [] kind = "sort_by_key" -> KeyOf(a) < KeyOf(b)
    [] kind = "sort_by" -> b < a
    [] kind = "less_always" -> TRUE
    [] kind = "less_reflexive" -> a <= b
    [] kind = "less_cyclic" -> (b - a) % 3 = 1

\* move_node that takes the node out and does not put it back.
move_node_dropped(m, from, to) == connect(m, m.prev[from], m.next[from])

move_nodes(m, from_front, from_back, to) ==
  LET m1 == connect(m, m.prev[from_front], m.next[from_back])
      m2 == connect(m1, m1.prev[to], from_front)
  IN  connect(m2, from_back, to)

move_node(m, from, to) == move_nodes(m, from, from, to)

\* <<mid, len>> of the range start..end.
RECURSIVE mid_of_range_loop(_, _, _, _, _)
mid_of_range_loop(m, start, end, mid, n) ==
  IF start = end THEN <<mid, n>>
  ELSE LET s1 == m.next[start]
       IN  IF s1 # end
             THEN mid_of_range_loop(m, m.next[s1], end, m.next[mid], n + 2)
             ELSE mid_of_range_loop(m, s1, end, mid, n + 1)

mid_of_range(m, start, end) == mid_of_range_loop(m, start, end, start, 0)

\* The nodes met by following next from node n up to the ghost of l,
\* at most k of them.
RECURSIVE Chain(_, _, _, _)
Chain(nx, n, g, k) ==
  IF n = g \/ n = NULL \/ k = 0 THEN <<>>
  ELSE <<n>> \o Chain(nx, nx[n], g, k - 1)

\* The element nodes of list l in ring order, for the links nx.
NodeSeqOf(nx, l) == Chain(nx, nx[ghost_node(l)], ghost_node(l), MaxNodes + 1)

\* The end of the run taken as the node after to_merge: one node a time.
first_not_less_one_node(m, kind, e, n, end) == n

\* The first node from n on that is stop or whose element is not < e.
RECURSIVE first_not_less(_, _, _, _, _)
first_not_less(m, kind, e, n, end) ==
  IF n # end /\ less(kind, m.elem[n], e)
    THEN first_not_less(m, kind, e, m.next[n], end)
    ELSE n

\* A scan that also stops at a node whose element ties with e.
RECURSIVE first_greater_or_equal(_, _, _, _, _)
first_greater_or_equal(m, kind, e, n, stop) ==
  IF n # stop /\ less(kind, m.elem[n], e)
    THEN first_greater_or_equal(m, kind, e, m.next[n], stop)
    ELSE n

\* The first node from n on that is stop or that has e < its element.
RECURSIVE first_greater(_, _, _, _, _)
first_greater(m, kind, e, n, stop) ==
  IF n # stop /\ ~less(kind, e, m.elem[n])
    THEN first_greater(m, kind, e, m.next[n], stop)
    ELSE n

\* The loop of insertion_sort_range; ret is the new start of the range.
RECURSIVE insertion_sort_loop(_, _, _, _, _, _)
insertion_sort_loop(m, kind, start, end, sorted_back, to_sort) ==
  IF to_sort # end /\ ~less(kind, m.elem[to_sort], m.elem[sorted_back])
    THEN insertion_sort_loop(m, kind, start, end, to_sort, m.next[to_sort])
  ELSE IF to_sort = end THEN [m EXCEPT !.ret = start]
  ELSE LET sorted == first_greater(m, kind, m.elem[to_sort], start, to_sort)
           start1 == IF sorted = start THEN to_sort ELSE start
           nxt == m.next[to_sort]
       IN  insertion_sort_loop(move_node(m, to_sort, sorted), kind, start1, end,
                               sorted_back, nxt)

insertion_sort_range(m, kind, start, end) ==
  insertion_sort_loop(m, kind, start, end, start, m.next[start])

\* The loop of merge_range; ret is the new start of the range.
\* What one pass of the loop of merge_range did: m is the heap before its
\* move_nodes call and m1 the heap after it.
Relocation(m, m1, kind, start1, to_merge, merged1, next_to_merge, end) ==
  LET run_back == m.prev[next_to_merge]
      run == Chain(m.next, to_merge, next_to_merge, MaxNodes + 1)
      range == Chain(m1.next, start1, next_to_merge, MaxNodes + 1)
  IN  [what |-> "relocation",
       run |-> Len(run),
       maximal |->
         /\ \A i \in 1..Len(run) : less(kind, m.elem[run[i]], m.elem[merged1])
         /\ next_to_merge = end
              \/ ~less(kind, m.elem[next_to_merge], m.elem[merged1]),
       placed |->
         /\ m1.next[run_back] = merged1 /\ m1.prev[merged1] = run_back
         /\ m1.prev[to_merge] = m.prev[merged1]
         /\ m1.next[m.prev[merged1]] = to_merge
         /\ Chain(m1.next, to_merge, merged1, MaxNodes + 1) = run,
       sorted |->
         \A i \in 1..(Len(range) - 1) :
           ~less(kind, m1.elem[range[i + 1]], m1.elem[range[i]])]

RECURSIVE merge_loop(_, _, _, _, _, _, _)
merge_loop(m, kind, start, end, merged, merged_back, to_merge) ==
  IF to_merge # end /\ less(kind, m.elem[to_merge], m.elem[merged_back])
    THEN LET merged1 == first_greater(m, kind, m.elem[to_merge], merged, to_merge)
         IN  IF merged1 = to_merge THEN [m EXCEPT !.ret = start]
             ELSE LET next_to_merge ==
                        first_not_less(m, kind, m.elem[merged1], m.next[to_merge], end)
                      start1 == IF merged1 = start THEN to_merge ELSE start
                      m1 == move_nodes(m, to_merge, m.prev[next_to_merge], merged1)
                      m2 == [m1 EXCEPT !.merges =
                               Append(@, Relocation(m, m1, kind, start1, to_merge,
                                                    merged1, next_to_merge, end))]
                  IN  merge_loop(m2, kind, start1, end, merged1, merged_back,
                                 next_to_merge)
    ELSE [m EXCEPT !.ret = start]

\* A merge that leaves the two sorted halves where they are.
merge_range_no_merge(m, kind, start, mid, end) == [m EXCEPT !.ret = start]

merge_range(m, kind, start, mid, end) ==
  LET r == merge_loop(m, kind, start, end, start, m.prev[mid], mid)
  IN  [r EXCEPT !.merges =
         Append(@, [what |-> "return",
                    first |-> r.ret = r.next[m.prev[start]]])]

RECURSIVE merge_sort_range(_, _, _, _)
merge_sort_range(m, kind, start, end) ==
  LET ml == mid_of_range(m, start, end)
      mid == ml[1]
  IN  IF ml[2] <= INSERTION_SORT_THRESHOLD
        THEN insertion_sort_range(m, kind, start, end)
        ELSE LET m1 == IF start # mid /\ m.next[start] # mid
                         THEN merge_sort_range(m, kind, start, mid)
                         ELSE [m EXCEPT !.ret = start]
                 start1 == m1.ret
                 m2 == IF mid # end /\ m1.next[mid] # end
                         THEN merge_sort_range(m1, kind, mid, end)
                         ELSE [m1 EXCEPT !.ret = mid]
                 mid1 == m2.ret
             IN  IF start1 # mid1 /\ mid1 # end
                   THEN merge_range(m2, kind, start1, mid1, end)
                   ELSE [m2 EXCEPT !.ret = start1]

\* A sort that leaves the nodes where they are and writes the elements into
\* them in sorted order.
merge_sort_by_copy(m, l, kind) ==
  LET start == front_node(m, l)
      end == ghost_node(l)
      m1 == IF m.len[l] < 2 THEN m
            ELSE IF m.len[l] <= INSERTION_SORT_THRESHOLD
              THEN insertion_sort_range(m, kind, start, end)
              ELSE merge_sort_range(m, kind, start, end)
      before == NodeSeqOf(m.next, l)
      after == NodeSeqOf(m1.next, l)
  IN  [m EXCEPT !.elem = [x \in DOMAIN m.elem |->
                           IF \E i \in 1..Len(before) : before[i] = x
                             THEN m.elem[after[CHOOSE i \in 1..Len(before) : before[i] = x]]
                             ELSE m.elem[x]],
                !.ret = Unit]

merge_sort(m, l, kind) ==
  LET start == front_node(m, l)
      end == ghost_node(l)
      m1 == IF m.len[l] < 2 THEN m
            ELSE IF m.len[l] <= INSERTION_SORT_THRESHOLD
              THEN insertion_sort_range(m, kind, start, end)
              ELSE merge_sort_range(m, kind, start, end)
  IN  [m1 EXCEPT !.ret = Unit]

(* Iter: src/src/list/iterator.rs.  i is the Iter, [start, end, len]. *)

Iter_new(m, l) ==
  [start |-> front_node(m, l), end |-> ghost_node(l), len |-> m.len[l]]

\* The Iter after the call and the value returned.
Iter_next(m, i) ==
  IF i.start = i.end THEN [i |-> i, ret |-> None]
  ELSE [i |-> [i EXCEPT !.start = m.next[i.start], !.len = @ - 1],
        ret |-> Some(m.elem[i.start])]

\* next_back without the test of start == end.
Iter_next_back_unfused(m, i) ==
  [i |-> [i EXCEPT !.end = m.prev[i.end], !.len = @ - 1],
   ret |-> Some(m.elem[m.prev[i.end]])]

Iter_next_back(m, i) ==
  IF i.start = i.end THEN [i |-> i, ret |-> None]
  ELSE [i |-> [i EXCEPT !.end = m.prev[i.end], !.len = @ - 1],
        ret |-> Some(m.elem[m.prev[i.end]])]

(* The cursor iterators: src/src/list/iterator.rs.  m holds the cursor the *)
(* iterator wraps; rev() moves that cursor into the iterator of the other  *)
(* direction.                                                              *)

\* A CursorIter::next that stays on the ghost once it is there.
CursorIter_next_fused(m, l) == [move_next(m, l) EXCEPT !.ret = current(m, l)]

CursorIter_next(m, l) == [move_next_cyclic(m, l) EXCEPT !.ret = current(m, l)]

CursorBackIter_next(m, l) ==
  LET m1 == move_prev_cyclic(m, l) IN [m1 EXCEPT !.ret = current(m1, l)]

(* FromIterator and Extend: src/src/list/iterator.rs *)

\* An extend that pushes each item to the front.
RECURSIVE extend_at_front(_, _, _)
extend_at_front(m, l, items) ==
  IF items = <<>> THEN [m EXCEPT !.ret = Unit]
  ELSE extend_at_front(push_front(m, l, Head(items)), l, Tail(items))

RECURSIVE extend(_, _, _)
extend(m, l, items) ==
  IF items = <<>> THEN [m EXCEPT !.ret = Unit]
  ELSE extend(push_back(m, l, Head(items)), l, Tail(items))

from_iter(m, l, items) == extend(new(m, l), l, items)

(* Clone: src/src/list/algorithms.rs *)

\* The elements the Iter i yields up to its end: iter().cloned().
RECURSIVE cloned(_, _)
cloned(m, i) ==
  LET r == Iter_next(m, i)
  IN  IF r.ret = None THEN <<>> ELSE <<r.ret[2]>> \o cloned(m, r.i)

\* other.clone(), the new list being built in the slot r.
clone(m, o, r) == from_iter(m, r, cloned(m, Iter_new(m, o)))

\* The for loop of clone_from: i is the Iter over other, m holds the cursor.
RECURSIVE clone_from_loop(_, _, _)
clone_from_loop(m, l, i) ==
  LET r == Iter_next(m, i)
  IN  IF r.ret = None THEN m
      ELSE LET m1 == IF current(m, l) = None
                       THEN insert(m, l, r.ret[2])
                       ELSE [m EXCEPT !.elem[m.cur] = r.ret[2]]
           IN  clone_from_loop(move_next_cyclic(m1, l), l, r.i)

\* The list that split() returns is dropped at once.
clone_from(m, l, o) ==
  LET m1 == clone_from_loop(cursor_start_mut(m, l), l, Iter_new(m, o))
      m2 == split(m1, l, Temp)
  IN  IF m2.ret = None THEN [m2 EXCEPT !.ret = Unit]
      ELSE [clear(m2, Temp) EXCEPT !.ret = Unit]

----------------------------------------------------------------------------
(* The state machine.  List 1 is the list a CursorMut may borrow; list 2   *)
(* is the other list of append, prepend, splice and splice_at and the slot *)
(* that receives the list returned by split, split_before and split_off.   *)
(* op records the last call: its name, its list, its arguments and the     *)
(* value it returned.                                                      *)

NoCursor == [list |-> 0, current |-> NULL, index |-> 0]

\* iter is the Iter held on list 1, with what next() and next_back() have
\* yielded so far; input is what from_iter and extend were given.
\* The read-only borrows of list 1 that are alive: the Cursors made by the
\* list, the Cursors re-borrowed from the CursorMut, and its views.
NoReaders == [list |-> 0, cursor_mut |-> 0, view |-> 0]

NoIter == [list |-> 0, start |-> NULL, end |-> NULL, len |-> 0,
           front |-> <<>>, back |-> <<>>]

Machine(c, i) ==
  [next |-> next, prev |-> prev, elem |-> elem, alloc |-> alloc, len |-> len,
   cur |-> c, idx |-> i, ret |-> Unit,
   freed |-> <<>>, dropped |-> <<>>, panics |-> {}, failed |-> {}, links |-> 0,
   merges |-> <<>>]

\* A call made on the list itself: it runs on a cursor of its own.
ListM == Machine(NULL, 0)

\* A call made on the CursorMut held on list 1.
CursorM == Machine(cursor.current, cursor.index)

Call(name, l, at, item, ret) ==
  [name |-> name, list |-> l, at |-> at, item |-> item, ret |-> ret]

Commit(m) ==
  /\ next' = m.next
  /\ prev' = m.prev
  /\ elem' = m.elem
  /\ alloc' = m.alloc
  /\ len' = m.len
  /\ failed' = m.failed

ListStep(m, name, l, at, item) ==
  /\ Commit(m)
  /\ UNCHANGED <<cursor, iter, input, readers>>
  /\ op' = Call(name, l, at, item, m.ret)

CursorStep(m, name, at, item) ==
  /\ Commit(m)
  /\ cursor' = [list |-> 1, current |-> m.cur, index |-> m.idx]
  /\ op' = Call(name, 1, at, item, m.ret)
  /\ UNCHANGED <<iter, input, readers>>

Other(l) == 3 - l

Free_while_read(l) == l \in Lists /\ cursor.list = 0

\* List l can be called: the program holds no CursorMut. A CursorMut borrows
\* list 1 mutably, and the program makes its calls on the lists between the
\* lifetimes of its cursors.
Free(l) == l \in Lists /\ cursor.list = 0 /\ readers.list = 0

\* List l can be read (&self): no CursorMut is held.
Shared(l) == l \in Lists /\ cursor.list = 0

\* The CursorMut on list l is held, and can be read (&self).
Borrowed(l) == cursor.list = l

\* The CursorMut on list l is held and can be called by &mut self or moved:
\* no Cursor and no view re-borrowed from it is alive.
Held(l) == cursor.list = l /\ readers.cursor_mut = 0 /\ readers.view = 0

CanAlloc == Cardinality(alloc) < MaxElems

Init ==
  /\ next = [n \in Nodes |-> IF n \in Ghosts THEN n ELSE NULL]
  /\ prev = [n \in Nodes |-> IF n \in Ghosts THEN n ELSE NULL]
  /\ elem = [n \in Nodes |-> NoElem]
  /\ alloc = {}
  /\ len = [l \in Lists \cup {Temp} |-> 0]
  /\ cursor = NoCursor
  /\ op = Call("new", 0, 0, NoElem, Unit)
  /\ iter = NoIter
  /\ input = <<>>
  /\ readers = NoReaders
  /\ failed = {}

PushFront ==
  \E l \in Lists, x \in Values :
    /\ Free(l) /\ CanAlloc
    /\ ListStep(push_front(ListM, l, x), "push_front", l, 0, x)

PushBack ==
  \E l \in Lists, x \in Values :
    /\ Free(l) /\ CanAlloc
    /\ ListStep(push_back(ListM, l, x), "push_back", l, 0, x)

PopFront ==
  \E l \in Lists :
    /\ Free(l)
    /\ ListStep(pop_front(ListM, l), "pop_front", l, 0, NoElem)

PopBack ==
  \E l \in Lists :
    /\ Free(l)
    /\ ListStep(pop_back(ListM, l), "pop_back", l, 0, NoElem)

Front ==
  \E l \in Lists :
    /\ Shared(l)
    /\ UNCHANGED <<next, prev, elem, alloc, len, failed, cursor, iter, input, readers>>
    /\ op' = Call("front", l, 0, NoElem, front(ListM, l))

Back ==
  \E l \in Lists :
    /\ Shared(l)
    /\ UNCHANGED <<next, prev, elem, alloc, len, failed, cursor, iter, input, readers>>
    /\ op' = Call("back", l, 0, NoElem, back(ListM, l))

Insert ==
  \E l \in Lists, x \in Values :
    \E at \in 0..(len[l] + 1) :
      /\ Free(l) /\ CanAlloc
      /\ ListStep(list_insert(ListM, l, at, x), "insert", l, at, x)

Remove ==
  \E l \in Lists :
    \E at \in 0..(len[l] + 1) :
      /\ Free(l)
      /\ ListStep(list_remove(ListM, l, at), "remove", l, at, NoElem)

\* list.append(&mut other); op.at records the len of other.
ListAppend ==
  \E l \in Lists :
    /\ Free(l) /\ Free(Other(l))
    /\ ListStep(append(ListM, l, Other(l)), "append", l, len[Other(l)], NoElem)

\* list.prepend(&mut other); op.at records the len of other.
ListPrepend ==
  \E l \in Lists :
    /\ Free(l) /\ Free(Other(l))
    /\ ListStep(prepend(ListM, l, Other(l)), "prepend", l, len[Other(l)], NoElem)

\* let other = list.split_off(at), the slot of other holding no element.
SplitOff ==
  \E l \in Lists :
    \E at \in 0..(len[l] + 1) :
      /\ Free(l) /\ Free(Other(l))
      /\ is_empty(ListM, Other(l))
      /\ ListStep(split_off(ListM, l, Other(l), at), "split_off", l, at, NoElem)

SpliceAt ==
  \E l \in Lists :
    \E at \in 0..(len[l] + 1) :
      /\ Free(l) /\ Free(Other(l))
      /\ ListStep(splice_at(ListM, l, at, Other(l)), "splice_at", l, at, NoElem)

Clear ==
  \E l \in Lists :
    /\ Free(l)
    /\ ListStep(clear(ListM, l), "clear", l, 0, NoElem)

\* list.cursor_mut(at); cursor_start_mut and cursor_end_mut are at = 0, len.
CursorMutNew ==
  \E at \in 0..(len[1] + 1) :
    /\ Free(1)
    /\ LET m == cursor_mut(ListM, 1, at)
       IN  IF m.ret = Panic
             THEN /\ UNCHANGED <<next, prev, elem, alloc, len, failed, cursor, iter, input, readers>>
                  /\ op' = Call("cursor_mut", 1, at, NoElem, Panic)
             ELSE CursorStep([m EXCEPT !.ret = Unit], "cursor_mut", at, NoElem)

CursorDrop ==
  /\ Held(1)
  /\ UNCHANGED <<next, prev, elem, alloc, len, failed, iter, input, readers>>
  /\ cursor' = NoCursor
  /\ op' = Call("cursor_drop", 1, 0, NoElem, Unit)

MoveNext ==
  /\ Held(1)
  /\ CursorStep(move_next(CursorM, 1), "move_next", 0, NoElem)

MovePrev ==
  /\ Held(1)
  /\ CursorStep(move_prev(CursorM, 1), "move_prev", 0, NoElem)

MoveNextCyclic ==
  /\ Held(1)
  /\ CursorStep(move_next_cyclic(CursorM, 1), "move_next_cyclic", 0, NoElem)

MovePrevCyclic ==
  /\ Held(1)
  /\ CursorStep(move_prev_cyclic(CursorM, 1), "move_prev_cyclic", 0, NoElem)

SeekForward ==
  \E k \in 0..(len[1] + 1) :
    /\ Held(1)
    /\ CursorStep(seek_forward(CursorM, 1, k), "seek_forward", k, NoElem)

SeekBackward ==
  \E k \in 0..(len[1] + 1) :
    /\ Held(1)
    /\ CursorStep(seek_backward(CursorM, 1, k), "seek_backward", k, NoElem)

TrySeekTo ==
  \E target \in 0..(len[1] + 1) :
    /\ Held(1)
    /\ CursorStep(try_seek_to(CursorM, 1, target), "try_seek_to", target, NoElem)

SeekTo ==
  \E target \in 0..(len[1] + 1) :
    /\ Held(1)
    /\ LET m == seek_to(CursorM, 1, target)
       IN  IF m.ret = Panic
             THEN /\ UNCHANGED <<next, prev, elem, alloc, len, failed, cursor, iter, input, readers>>
                  /\ op' = Call("seek_to", 1, target, NoElem, Panic)
             ELSE CursorStep(m, "seek_to", target, NoElem)

MoveToStart ==
  /\ Held(1)
  /\ CursorStep(move_to_start(CursorM, 1), "move_to_start", 0, NoElem)

MoveToEnd ==
  /\ Held(1)
  /\ CursorStep(move_to_end(CursorM, 1), "move_to_end", 0, NoElem)

Current ==
  /\ Borrowed(1)
  /\ UNCHANGED <<next, prev, elem, alloc, len, failed, cursor, iter, input, readers>>
  /\ op' = Call("current", 1, 0, NoElem, current(CursorM, 1))

Previous ==
  /\ Borrowed(1)
  /\ UNCHANGED <<next, prev, elem, alloc, len, failed, cursor, iter, input, readers>>
  /\ op' = Call("previous", 1, 0, NoElem, previous(CursorM, 1))

CursorInsert ==
  \E x \in Values :
    /\ Held(1) /\ CanAlloc
    /\ CursorStep(insert(CursorM, 1, x), "c_insert", 0, x)

CursorRemove ==
  /\ Held(1)
  /\ CursorStep(remove(CursorM, 1), "c_remove", 0, NoElem)

CursorBackspace ==
  /\ Held(1)
  /\ CursorStep(backspace(CursorM, 1), "c_backspace", 0, NoElem)

\* let other = cursor.split(), the slot of other holding no element.
CursorSplit ==
  /\ Held(1)
  /\ is_empty(CursorM, 2)
  /\ CursorStep(split(CursorM, 1, 2), "c_split", 0, NoElem)

CursorSplitBefore ==
  /\ Held(1)
  /\ is_empty(CursorM, 2)
  /\ CursorStep(split_before(CursorM, 1, 2), "c_split_before", 0, NoElem)

\* cursor.splice(other), other being list 2; op.at records the len of other.
CursorSplice ==
  /\ Held(1)
  /\ CursorStep(splice(CursorM, 1, 2), "c_splice", len[2], NoElem)

Sort ==
  \E l \in Lists, kind \in SortKinds :
    /\ Free(l)
    /\ ListStep(merge_sort(ListM, l, kind), kind, l, 0, NoElem)

ListNext ==
  \/ PushFront \/ PushBack \/ PopFront \/ PopBack \/ Front \/ Back
  \/ Insert \/ Remove \/ ListAppend \/ ListPrepend \/ SplitOff \/ SpliceAt \/ Clear \/ Sort

CursorNext ==
  \/ CursorMutNew \/ CursorDrop
  \/ MoveNext \/ MovePrev \/ MoveNextCyclic \/ MovePrevCyclic
  \/ SeekForward \/ SeekBackward \/ TrySeekTo \/ SeekTo \/ MoveToStart \/ MoveToEnd
  \/ Current \/ Previous
  \/ CursorInsert \/ CursorRemove \/ CursorBackspace
  \/ CursorSplit \/ CursorSplitBefore \/ CursorSplice

Next == ListNext \/ CursorNext

Spec == Init /\ [][Next]_vars

(* Construction and iteration: list 1 is built by List::from_iter, grown   *)
(* by extend and read through an Iter.                                     *)

FromIter ==
  \E s \in UNION {[1..k -> Values] : k \in 0..MaxElems} :
    /\ op.name = "new"
    /\ Commit(from_iter(ListM, 1, s))
    /\ op' = Call("from_iter", 1, 0, NoElem, Unit)
    /\ input' = s
    /\ UNCHANGED <<cursor, iter, readers>>

Extend ==
  \E s \in UNION {[1..k -> Values] : k \in 0..(MaxElems - Cardinality(alloc))} :
    /\ iter.list = 0
    /\ op.name # "new"
    /\ Commit(extend(ListM, 1, s))
    /\ op' = Call("extend", 1, 0, NoElem, Unit)
    /\ input' = input \o s
    /\ UNCHANGED <<cursor, iter, readers>>

IterNew ==
  /\ iter.list = 0
  /\ iter' = [list |-> 1, start |-> Iter_new(ListM, 1).start,
               end |-> Iter_new(ListM, 1).end, len |-> Iter_new(ListM, 1).len,
               front |-> <<>>, back |-> <<>>]
  /\ op' = Call("iter", 1, 0, NoElem, Unit)
  /\ UNCHANGED <<next, prev, elem, alloc, len, failed, cursor, input, readers>>

IterNext ==
  /\ iter.list = 1
  /\ LET r == Iter_next(ListM, [start |-> iter.start, end |-> iter.end, len |-> iter.len])
     IN  /\ iter' = [iter EXCEPT !.start = r.i.start, !.end = r.i.end, !.len = r.i.len,
                                  !.front = IF r.ret = None THEN @ ELSE Append(@, r.ret[2])]
         /\ op' = Call("Iter::next", 1, 0, NoElem, r.ret)
  /\ UNCHANGED <<next, prev, elem, alloc, len, failed, cursor, input, readers>>

IterNextBack ==
  /\ iter.list = 1
  /\ LET r == Iter_next_back(ListM, [start |-> iter.start, end |-> iter.end, len |-> iter.len])
     IN  /\ iter' = [iter EXCEPT !.start = r.i.start, !.end = r.i.end, !.len = r.i.len,
                                  !.back = IF r.ret = None THEN @ ELSE Append(@, r.ret[2])]
         /\ op' = Call("Iter::next_back", 1, 0, NoElem, r.ret)
  /\ UNCHANGED <<next, prev, elem, alloc, len, failed, cursor, input, readers>>

IterDrop ==
  /\ iter.list = 1
  /\ iter' = NoIter
  /\ op' = Call("iter_drop", 1, 0, NoElem, Unit)
  /\ UNCHANGED <<next, prev, elem, alloc, len, failed, cursor, input, readers>>

NextIter == FromIter \/ Extend \/ IterNew \/ IterNext \/ IterNextBack \/ IterDrop

SpecIter == Init /\ [][NextIter]_vars

(* The sort on its own, on lists long enough to take the merge path: list  *)
(* 1 is List::from_iter(input) for every input of at most SortMaxLen       *)
(* elements, and the only calls are the three sorts.                       *)

\* The elements of the lists given to the sort in SpecSort.
SortValues == {0 - 1, 0, 1}

SeqsUpTo(n) == UNION {[1..k -> SortValues] : k \in 0..n}

\* The inputs of the examples of sort and sort_by_key.
ExampleInputs == {<<5, 2, 4, 3, 1>>, <<0 - 5, 4, 1, 0 - 3, 2>>}

EmptyM ==
  [next |-> [n \in Nodes |-> IF n \in Ghosts THEN n ELSE NULL],
   prev |-> [n \in Nodes |-> IF n \in Ghosts THEN n ELSE NULL],
   elem |-> [n \in Nodes |-> NoElem],
   alloc |-> {},
   len |-> [l \in Lists \cup {Temp} |-> 0],
   cur |-> NULL, idx |-> 0, ret |-> Unit,
   freed |-> <<>>, dropped |-> <<>>, panics |-> {}, failed |-> {}, links |-> 0,
   merges |-> <<>>]

InitSort ==
  \E s \in SeqsUpTo(SortMaxLen) \cup ExampleInputs :
    LET m == from_iter(EmptyM, 1, s)
    IN  /\ next = m.next
        /\ prev = m.prev
        /\ elem = m.elem
        /\ alloc = m.alloc
        /\ len = m.len
        /\ cursor = NoCursor
        /\ op = Call("from_iter", 1, 0, NoElem, Unit)
        /\ iter = NoIter
        /\ input = <<>>
        /\ readers = NoReaders
        /\ failed = {}

\* A list that a sort has left is sorted again by the same sort only: as a
\* sequence of elements it is one of the inputs of InitSort, and the sort
\* reads the elements and the links of the nodes, never their addresses.
SortOnly ==
  \E kind \in SortKinds :
    /\ op.name \in {"from_iter", kind}
    /\ ListStep(merge_sort(ListM, 1, kind), kind, 1, 0, NoElem)

NextSort == SortOnly

SpecSort == InitSort /\ [][NextSort]_vars

(* sort_by with a closure of LessKinds, on every list of InitSort. *)
SortByAny ==
  \E kind \in LessKinds :
    /\ op.name = "from_iter"
    /\ ListStep(merge_sort(ListM, 1, kind), kind, 1, 0, NoElem)

NextSortBy == SortByAny

SpecSortBy == InitSort /\ [][NextSortBy]_vars

----------------------------------------------------------------------------
(* Clone: two lists built by pushes and pops, and list.clone_from(&other). *)
CloneFrom ==
  \E l \in Lists :
    /\ Free(l) /\ Free(Other(l))
    /\ ListStep(clone_from(ListM, l, Other(l)), "clone_from", l, len[Other(l)], NoElem)

NextClone == PushFront \/ PushBack \/ PopFront \/ PopBack \/ CloneFrom

SpecClone == Init /\ [][NextClone]_vars

(* Teardown: lists built by pushes and pops are cleared, or dropped while  *)
(* the destructor of the elements whose value is in panics panics.  After  *)
(* the drop the slot holds a new list, List::new(); the nodes the drop did *)
(* not free stay allocated.                                                *)
DropList ==
  \E l \in Lists, panics \in SUBSET Values :
    /\ Free(l)
    /\ ListStep(new(drop([ListM EXCEPT !.panics = panics], l), l),
                "drop", l, len[l], NoElem)

NextDrop == PushFront \/ PushBack \/ PopFront \/ PopBack \/ Clear \/ DropList

SpecDrop == Init /\ [][NextDrop]_vars

(* Drain: src/src/list/algorithms/drain.rs.  list 1 is built by from_iter  *)
(* and extend; iter is the Drain that borrows it, iter.front the elements  *)
(* it has yielded, and input the elements the list held when drain() was   *)
(* called.  After the drop iter.front keeps what the Drain had yielded.    *)
DrainNew ==
  /\ iter.list = 0
  /\ op.name # "new"
  /\ iter' = [NoIter EXCEPT !.list = 1]
  /\ input' = cloned(ListM, Iter_new(ListM, 1))
  /\ UNCHANGED readers
  /\ op' = Call("drain", 1, 0, NoElem, Unit)
  /\ UNCHANGED <<next, prev, elem, alloc, len, failed, cursor>>

\* Drain::next is self.list.pop_front().
DrainNext ==
  /\ iter.list = 1
  /\ LET m == pop_front(ListM, 1)
     IN  /\ Commit(m)
         /\ iter' = [iter EXCEPT !.front = IF m.ret = None THEN @ ELSE Append(@, m.ret[2])]
         /\ op' = Call("Drain::next", 1, 0, NoElem, m.ret)
  /\ UNCHANGED <<cursor, input, readers>>

\* Drop for Drain is self.list.clear(); op.at records how many were yielded.
DrainDrop ==
  /\ iter.list = 1
  /\ Commit(clear(ListM, 1))
  /\ iter' = [iter EXCEPT !.list = 0]
  /\ op' = Call("Drain::drop", 1, Len(iter.front), NoElem, Unit)
  /\ UNCHANGED <<cursor, input, readers>>

NextDrain == FromIter \/ Extend \/ DrainNew \/ DrainNext \/ DrainDrop

SpecDrain == Init /\ [][NextDrain]_vars

(* Cursor iterators: the cursor held on list 1 is turned into a CursorIter *)
(* (into_iter) or, by rev(), into a CursorBackIter, and next() is called.  *)
CursorIterNext ==
  /\ Held(1)
  /\ CursorStep(CursorIter_next(CursorM, 1), "CursorIter::next", 0, NoElem)

CursorBackIterNext ==
  /\ Held(1)
  /\ CursorStep(CursorBackIter_next(CursorM, 1), "CursorBackIter::next", 0, NoElem)

NextCursorIter ==
  \/ PushFront \/ PushBack \/ PopFront \/ CursorMutNew \/ CursorDrop
  \/ CursorIterNext \/ CursorBackIterNext

SpecCursorIter == Init /\ [][NextCursorIter]_vars

(* The ends of the list through the cursor: a CursorMut is taken at every  *)
(* position of list 1 and push_front, pop_front, push_back or pop_back is  *)
(* called on it, and then split_before.  The four calls are made on a      *)
(* cursor that is on a node of the ring with its index the number of nodes *)
(* before it (CursorSound), split_before on a cursor whose node is not     *)
(* freed (CursorLive); a call through a dangling cursor is not followed,   *)
(* nor a cursor call after a failed assertion, where a debug build has     *)
(* panicked.                                                               *)
CursorLive ==
  /\ failed = {}
  /\ cursor.current \in alloc \cup {ghost_node(1)}

\* The number of next links from node a to node b, or -1 when b is not met.
RECURSIVE Steps(_, _, _)
Steps(a, b, k) ==
  IF a = b THEN 0
  ELSE IF k = 0 \/ a = NULL THEN 0 - 1
  ELSE LET r == Steps(next[a], b, k - 1) IN IF r < 0 THEN r ELSE r + 1

CursorSound ==
  /\ CursorLive
  /\ cursor.index = Steps(next[ghost_node(1)], cursor.current, MaxNodes + 1)

CursorPushFront ==
  \E x \in Values :
    /\ Held(1) /\ CursorSound /\ CanAlloc
    /\ CursorStep(CursorMut_push_front(CursorM, 1, x), "c_push_front", cursor.index, x)

CursorPopFront ==
  /\ Held(1) /\ CursorSound
  /\ CursorStep(CursorMut_pop_front(CursorM, 1), "c_pop_front", cursor.index, NoElem)

CursorPushBack ==
  \E x \in Values :
    /\ Held(1) /\ CursorSound /\ CanAlloc
    /\ CursorStep(CursorMut_push_back(CursorM, 1, x), "c_push_back", cursor.index, x)

CursorPopBack ==
  /\ Held(1) /\ CursorSound
  /\ CursorStep(CursorMut_pop_back(CursorM, 1), "c_pop_back", cursor.index, NoElem)

SplitBeforeAfterEnds == CursorLive /\ CursorSplitBefore

NextCursorEnds ==
  \/ PushBack \/ CursorMutNew \/ CursorDrop
  \/ CursorPushFront \/ CursorPopFront \/ CursorPushBack \/ CursorPopBack
  \/ SplitBeforeAfterEnds

SpecCursorEnds == Init /\ [][NextCursorEnds]_vars

(* Borrows: what the signatures let a program hold at once.  A call by     *)
(* &mut self on the list needs that no Cursor and no CursorMut borrows it, *)
(* a call by &self that no CursorMut does; the CursorMut is read (&self)   *)
(* while Cursors and views re-borrowed from it are alive, and called by    *)
(* &mut self once they are gone.  readers counts the read-only borrows of  *)
(* list 1; where a Cursor points is not part of the state.                 *)

\* list.cursor(at)
CursorNew ==
  \E at \in 0..(len[1] + 1) :
    /\ Shared(1)
    /\ readers.list < MaxReaders
    /\ UNCHANGED <<next, prev, elem, alloc, len, failed, cursor, iter, input>>
    /\ IF cursor_mut(ListM, 1, at).ret = Panic
         THEN /\ UNCHANGED readers
              /\ op' = Call("cursor", 1, at, NoElem, Panic)
         ELSE /\ readers' = [readers EXCEPT !.list = @ + 1]
              /\ op' = Call("cursor", 1, at, NoElem, Unit)

\* cursor_mut.as_cursor()
AsCursor ==
  /\ Borrowed(1)
  /\ readers.cursor_mut < MaxReaders
  /\ UNCHANGED <<next, prev, elem, alloc, len, failed, cursor, iter, input>>
  /\ readers' = [readers EXCEPT !.cursor_mut = @ + 1]
  /\ op' = Call("as_cursor", 1, cursor.index, NoElem, Unit)

\* cursor_mut.view()
View ==
  /\ Borrowed(1)
  /\ readers.view < MaxReaders
  /\ UNCHANGED <<next, prev, elem, alloc, len, failed, cursor, iter, input>>
  /\ readers' = [readers EXCEPT !.view = @ + 1]
  /\ op' = Call("view", 1, 0, NoElem, Unit)

\* cursor_mut.into_cursor(): the CursorMut is consumed, the Cursor keeps its
\* borrow of the list.
IntoCursor ==
  /\ Held(1)
  /\ readers.list < MaxReaders
  /\ UNCHANGED <<next, prev, elem, alloc, len, failed, iter, input>>
  /\ cursor' = NoCursor
  /\ readers' = [readers EXCEPT !.list = @ + 1]
  /\ op' = Call("into_cursor", 1, cursor.index, NoElem, Unit)

\* A Cursor or a view goes out of scope.
ReaderDrop ==
  \E k \in DOMAIN readers :
    /\ readers[k] > 0
    /\ UNCHANGED <<next, prev, elem, alloc, len, failed, cursor, iter, input>>
    /\ readers' = [readers EXCEPT ![k] = @ - 1]
    /\ op' = Call("reader_drop", 1, 0, NoElem, Unit)

NextBorrow ==
  \/ PushBack \/ PopFront \/ Front
  \/ CursorMutNew \/ CursorDrop \/ MoveNext \/ Current \/ CursorInsert
  \/ CursorNew \/ AsCursor \/ View \/ IntoCursor \/ ReaderDrop

SpecBorrow == Init /\ [][NextBorrow]_vars

----------------------------------------------------------------------------
(* What a list looks like from outside. *)

\* The sequence of elements list l holds, for the links nx and elements el.
ElemSeqOf(nx, el, l) ==
  LET ns == NodeSeqOf(nx, l) IN [i \in 1..Len(ns) |-> el[ns[i]]]

NodeSeq(l) == NodeSeqOf(next, l)

ElemSeq(l) == ElemSeqOf(next, elem, l)

\* The same in the state a step leads to.
NodeSeqP(l) == NodeSeqOf(next', l)

ElemSeqP(l) == ElemSeqOf(next', elem', l)

Range(s) == {s[i] : i \in 1..Len(s)}

NoDup(s) == \A i, j \in 1..Len(s) : i # j => s[i] # s[j]

\* The links of node x and of its neighbours agree.
Linked(x) == next[x] \in Nodes /\ prev[x] \in Nodes /\ prev[next[x]] = x /\ next[prev[x]] = x

\* Following next from the ghost of l meets live element nodes, each once,
\* and comes back to the ghost.
Closed(l) ==
  LET s == NodeSeq(l)
  IN  /\ NoDup(s)
      /\ Range(s) \subseteq alloc
      /\ IF s = <<>> THEN next[ghost_node(l)] = ghost_node(l)
                     ELSE next[s[Len(s)]] = ghost_node(l)

WellFormed(l) ==
  /\ Closed(l)
  /\ \A x \in Range(NodeSeq(l)) \cup {ghost_node(l)} : Linked(x)

SubSeqFrom(s, i) == SubSeq(s, i, Len(s))

----------------------------------------------------------------------------
(* C1: in every reachable state the ring of every list is well formed:     *)
(* every node x of the ring, the ghost included, has x.next.prev == x and  *)
(* x.prev.next == x, and following next from the ghost visits every        *)
(* element node exactly once before it returns to the ghost.               *)
Thm_C1_RingWellFormed == \A l \in Lists : WellFormed(l)

Wit_C1_RingAfterSplitBefore ==
  /\ op.name = "c_split_before"
  /\ op.ret # None
  /\ len[1] >= 1
  /\ len[2] >= 2

(* C2: the len of each list is the number of element nodes in its ring,    *)
(* and is_empty() is true exactly when that number is 0.                   *)
Thm_C2_LenCountsNodes ==
  \A l \in Lists :
    /\ len[l] = Len(NodeSeq(l))
    /\ is_empty(ListM, l) <=> (len[l] = 0)

Wit_C2_LenAfterSplitOff ==
  /\ op.name = "split_off"
  /\ len[1] >= 1
  /\ len[2] >= 1
  /\ len[1] + len[2] >= 3

(* C3: while a CursorMut exists, its index lies in [0, len], equals the    *)
(* number of forward steps from the front node to the cursor's node, and   *)
(* equals len if and only if the cursor is on the ghost node.              *)
Thm_C3_CursorIndex ==
  cursor.list = 1 =>
    /\ cursor.index \in 0..len[1]
    /\ cursor.index = Steps(next[ghost_node(1)], cursor.current, MaxNodes + 1)
    /\ (cursor.index = len[1]) <=> (cursor.current = ghost_node(1))

Wit_C3_IndexAfterSplitBefore ==
  /\ op.name = "c_split_before"
  /\ op.ret # None
  /\ cursor.current # ghost_node(1)
  /\ cursor.index = 0
  /\ len[2] >= 1

(* C4: a List refines a finite sequence s: push_front(x) gives [x] ++ s,   *)
(* push_back(x) gives s ++ [x], pop_front and pop_back remove and return   *)
(* the first and the last element, front() and back() return them and      *)
(* leave the list as it is, and on an empty list all four return None and  *)
(* the list stays empty.                                                   *)
RefinesSeq ==
  LET l == op'.list
      s == ElemSeq(l)
      t == ElemSeqP(l)
      r == op'.ret
  IN  /\ op'.name = "push_front" => t = <<op'.item>> \o s
      /\ op'.name = "push_back" => t = s \o <<op'.item>>
      /\ op'.name = "pop_front" =>
           IF s = <<>> THEN r = None /\ t = <<>>
                       ELSE r = Some(Head(s)) /\ t = Tail(s)
      /\ op'.name = "pop_back" =>
           IF s = <<>> THEN r = None /\ t = <<>>
                       ELSE r = Some(s[Len(s)]) /\ t = SubSeq(s, 1, Len(s) - 1)
      /\ op'.name = "front" =>
           /\ r = IF s = <<>> THEN None ELSE Some(Head(s))
           /\ t = s
      /\ op'.name = "back" =>
           /\ r = IF s = <<>> THEN None ELSE Some(s[Len(s)])
           /\ t = s
      /\ op'.name \in {"push_front", "push_back", "pop_front", "pop_back", "front", "back"} =>
           ElemSeqP(Other(l)) = ElemSeq(Other(l))

Thm_C4_ListRefinesSeq == [][RefinesSeq]_vars

Wit_C4_PopBackOfThree ==
  /\ op.name = "pop_back"
  /\ op.ret = Some(1)
  /\ ElemSeq(op.list) = <<0, 1>>

(* C5: list 1 holds the elements given to from_iter and to the calls of   *)
(* extend after it, in the order they were given; an Iter over it has      *)
(* yielded, by next(), the first elements of that sequence in order and,   *)
(* by next_back(), its last elements in reverse order, and when it is      *)
(* exhausted it has yielded all of them: forward iteration alone yields    *)
(* the input and backward iteration alone yields its reverse.              *)
Reverse(s) == [i \in 1..Len(s) |-> s[Len(s) + 1 - i]]

Thm_C5_IterYieldsInput ==
  /\ ElemSeq(1) = input
  /\ iter.list = 1 =>
       /\ Len(iter.front) + Len(iter.back) <= Len(input)
       /\ iter.front = SubSeq(input, 1, Len(iter.front))
       /\ iter.back = SubSeq(Reverse(input), 1, Len(iter.back))
       /\ (op.name \in {"Iter::next", "Iter::next_back"} /\ op.ret = None) =>
            Len(iter.front) + Len(iter.back) = Len(input)

Wit_C5_BackwardYieldsReverse ==
  /\ op.name = "Iter::next_back"
  /\ op.ret = None
  /\ input = <<0, 1, 1>>
  /\ iter.front = <<>>
  /\ iter.back = <<1, 1, 0>>

(* The order each sort is meant to establish, stated on the elements and   *)
(* not through less: sort orders by the element, sort_by_key by its        *)
(* absolute value, sort_by by the element in reverse.                      *)
rank(kind, x) ==
  CASE kind = "sort" -> x
    [] kind = "sort_by_key" -> IF x < 0 THEN 0 - x ELSE x
    [] kind = "sort_by" -> 0 - x

\* The elements of list l, for the links nx and the elements el, are in
\* the order of the sort: each is at most the one after it.
InOrder(kind, nx, el, l) ==
  \A n \in Range(NodeSeqOf(nx, l)) :
    nx[n] \in ElemNodes => rank(kind, el[n]) <= rank(kind, el[nx[n]])

\* Node a is met before node b on the way from a to the ghost, before the step.
RECURSIVE Before(_, _)
Before(a, b) ==
  IF a \notin ElemNodes THEN FALSE
  ELSE IF next[a] = b THEN TRUE
  ELSE Before(next[a], b)

(* C6: a sort leaves the list non-decreasing in its order and a            *)
(* permutation of what it held: the ring holds the nodes it held, once     *)
(* each, with the elements they had, so that every element is there as     *)
(* many times as before, and the len is the same, for the lists of 0, 1,   *)
(* 2..8 and more than 8 elements; sort() on [5,2,4,3,1] gives [1,2,3,4,5]. *)
SortsToPermutation ==
  op'.name \in SortKinds =>
    /\ InOrder(op'.name, next', elem', 1)
    /\ Range(NodeSeqP(1)) = Range(NodeSeq(1))
    /\ Cardinality(Range(NodeSeqP(1))) = Len(NodeSeqP(1))
    /\ elem' = elem
    /\ len'[1] = len[1]
    /\ len'[1] = Len(NodeSeqP(1))
    /\ (op'.name = "sort" /\ len[1] = 5 /\ ElemSeq(1) = <<5, 2, 4, 3, 1>>) =>
         ElemSeqP(1) = <<1, 2, 3, 4, 5>>

Thm_C6_SortSorts == [][SortsToPermutation]_vars

Wit_C6_MergePathSorted ==
  /\ op.name = "sort"
  /\ len[1] > INSERTION_SORT_THRESHOLD
  /\ NodeSeq(1) = <<7, 8, 9, 5, 6, 1, 2, 3, 4>>
  /\ ElemSeq(1) = <<0 - 1, 0 - 1, 0 - 1, 0, 0, 1, 1, 1, 1>>

(* C7: the three sorts are stable: two nodes whose elements tie in the     *)
(* order of the sort, neither less than the other, are after the sort in   *)
(* the order they were in before it, below and above the threshold of the  *)
(* insertion sort.  After the sort each node is followed by a node that    *)
(* is greater in the order of the sort, or that ties with it and was       *)
(* after it before the sort: the nodes of a group of ties are next to      *)
(* each other and in the order they had; sort_by_key(abs) on               *)
(* [-5,4,1,-3,2] gives [1,2,-3,4,-5].                                      *)
SortKeepsTiesInOrder ==
  op'.name \in SortKinds =>
    /\ elem' = elem
    /\ \A n \in Range(NodeSeqP(1)) :
         next'[n] \in ElemNodes =>
           \/ rank(op'.name, elem[n]) < rank(op'.name, elem[next'[n]])
           \/ /\ rank(op'.name, elem[n]) = rank(op'.name, elem[next'[n]])
              /\ Before(n, next'[n])
    /\ (op'.name = "sort_by_key" /\ len[1] = 5
          /\ ElemSeq(1) = <<0 - 5, 4, 1, 0 - 3, 2>>) =>
         ElemSeqP(1) = <<1, 2, 0 - 3, 4, 0 - 5>>

Thm_C7_SortStable == [][SortKeepsTiesInOrder]_vars

Wit_C7_TiesKeptAboveThreshold ==
  /\ op.name = "sort_by_key"
  /\ NodeSeq(1) = <<2, 4, 6, 8, 1, 3, 5, 7, 9>>
  /\ ElemSeq(1) = <<0, 0, 0, 0, 1, 0 - 1, 1, 0 - 1, 1>>

(* C8: a sort of a list that is already in the order of the sort, runs of  *)
(* tied elements and lists of tied elements included, moves no node: the   *)
(* nodes of the ring and their links are the same before and after; and a  *)
(* sort that follows the same sort changes nothing.                        *)
SortedStaysPut ==
  op'.name \in SortKinds =>
    /\ InOrder(op'.name, next, elem, 1) =>
         /\ NodeSeqP(1) = NodeSeq(1)
         /\ next' = next
         /\ prev' = prev
    /\ op.name = op'.name => NodeSeqP(1) = NodeSeq(1)

Thm_C8_SortIdempotent == [][SortedStaysPut]_vars

Wit_C8_SortedRunsAboveThreshold ==
  /\ op.name = "sort_by"
  /\ NodeSeq(1) = <<1, 2, 3, 4, 5, 6, 7, 8, 9>>
  /\ ElemSeq(1) = <<1, 1, 1, 0, 0, 0, 0 - 1, 0 - 1, 0 - 1>>

(* C9: CursorMut::insert(item), the cursor at index i of a list holding   *)
(* s, makes the list s[0..i] ++ [item] ++ s[i..]; the cursor is on the     *)
(* node it was on, current() is what it was (None at the ghost),           *)
(* previous() is the inserted item and the index is i + 1.                 *)
(* List::insert(at, item) with at <= len has the same effect on the list.  *)
InsertsBeforeCursor ==
  /\ op'.name = "c_insert" =>
       LET s == ElemSeq(1)
           i == cursor.index
       IN  /\ ElemSeqP(1) = SubSeq(s, 1, i) \o <<op'.item>> \o SubSeqFrom(s, i + 1)
           /\ ElemSeqP(2) = ElemSeq(2)
           /\ cursor'.current = cursor.current
           /\ current(CursorM, 1)' = current(CursorM, 1)
           /\ previous(CursorM, 1)' = Some(op'.item)
           /\ cursor'.index = i + 1
  /\ (op'.name = "insert" /\ op'.ret # Panic) =>
       LET l == op'.list
           s == ElemSeq(l)
           at == op'.at
       IN  /\ at <= Len(s)
           /\ ElemSeqP(l) = SubSeq(s, 1, at) \o <<op'.item>> \o SubSeqFrom(s, at + 1)
           /\ ElemSeqP(Other(l)) = ElemSeq(Other(l))

SeekOk(k) == seek_forward(CursorM, 1, k).ret = Ok

RemoveAfterSeek(k) == remove(seek_forward(CursorM, 1, k), 1).ret

DocInsert == insert(cursor_start_mut(from_iter(EmptyM, 1, <<1, 2, 3, 4>>), 1), 1, 5)

DocExample ==
  /\ ElemSeqOf(DocInsert.next, DocInsert.elem, 1) = <<5, 1, 2, 3, 4>>
  /\ current(DocInsert, 1) = Some(1)
  /\ previous(DocInsert, 1) = Some(5)
  /\ seek_forward(DocInsert, 1, 3).ret = Ok
  /\ remove(seek_forward(DocInsert, 1, 3), 1).ret = Some(4)

InsertKeepsCurrent ==
  op'.name = "c_insert" =>
    LET s == ElemSeq(1)
        i == cursor.index
    IN  /\ current(CursorM, 1)' = IF i < Len(s) THEN Some(s[i + 1]) ELSE None
        /\ \A k \in 0..(Len(s) - i) :
             /\ SeekOk(k)'
             /\ RemoveAfterSeek(k)' = IF i + k < Len(s) THEN Some(s[i + k + 1]) ELSE None
        /\ DocExample

RemoveAt(s, k) == SubSeq(s, 1, k - 1) \o SubSeqFrom(s, k + 1)

(* C11: CursorMut::remove() with the cursor at index i < len returns the   *)
(* element at i and removes that node and no other: the other nodes keep   *)
(* their order, len goes down by 1, the cursor is on the node that         *)
(* followed the removed one and its index is still i.  At the ghost it     *)
(* returns None and changes neither the lists nor the cursor.              *)
RemovesCurrent ==
  op'.name = "c_remove" =>
    LET s == ElemSeq(1)
        i == cursor.index
    IN  IF i < len[1]
          THEN /\ op'.ret = Some(s[i + 1])
               /\ ElemSeqP(1) = RemoveAt(s, i + 1)
               /\ NodeSeqP(1) = RemoveAt(NodeSeq(1), i + 1)
               /\ ElemSeqP(2) = ElemSeq(2)
               /\ len'[1] = len[1] - 1
               /\ cursor'.current = next[cursor.current]
               /\ cursor'.index = i
          ELSE /\ op'.ret = None
               /\ UNCHANGED <<next, prev, elem, alloc, len, cursor>>

Thm_C11_RemoveCurrent == [][RemovesCurrent]_vars

Wit_C11_RemovedTheMiddle ==
  /\ op.name = "c_remove"
  /\ op.ret = Some(1)
  /\ cursor.index = 1
  /\ ElemSeq(1) = <<0, 0>>
  /\ current(CursorM, 1) = Some(0)

(* C12: CursorMut::backspace() is move_prev() followed by remove(): with   *)
(* the cursor at index i > 0 it returns the element at i - 1 and removes   *)
(* it, current() is what it was and the index is i - 1; at index 0, on an  *)
(* empty list too, it returns None and changes neither the lists nor the   *)
(* cursor.  A backspace() right after insert(x) returns x and gives back   *)
(* the lists, the freed node included, and the cursor of before the        *)
(* insert.                                                                 *)
MovePrevThenRemove == remove(move_prev(CursorM, 1), 1)

BackspaceNow == backspace(CursorM, 1)

BackspaceRemovesPrevious ==
  /\ op'.name = "c_backspace" =>
       LET s == ElemSeq(1)
           i == cursor.index
       IN  IF i > 0
             THEN /\ op'.ret = Some(s[i])
                  /\ ElemSeqP(1) = RemoveAt(s, i)
                  /\ ElemSeqP(2) = ElemSeq(2)
                  /\ cursor'.current = cursor.current
                  /\ current(CursorM, 1)' = current(CursorM, 1)
                  /\ cursor'.index = i - 1
                  /\ [MovePrevThenRemove EXCEPT !.freed = <<>>] =
                       [CursorM' EXCEPT !.ret = op'.ret]
             ELSE /\ op'.ret = None
                  /\ UNCHANGED <<next, prev, elem, alloc, len, cursor>>
  /\ op'.name = "c_insert" =>
       [BackspaceNow EXCEPT !.freed = <<>>]' =
         [CursorM EXCEPT !.ret = Some(op'.item)]

Thm_C12_BackspaceIsMovePrevRemove == [][BackspaceRemovesPrevious]_vars

Wit_C12_BackspacedTheMiddle ==
  /\ op.name = "c_backspace"
  /\ op.ret = Some(1)
  /\ cursor.index = 1
  /\ ElemSeq(1) = <<0, 0>>
  /\ previous(CursorM, 1) = Some(0)

IsErr(r) == r # Ok /\ r[1] = "Err"

(* C13: move_next() with the cursor at the ghost, on an empty list too,    *)
(* returns Err and leaves the node and the index of the cursor as they     *)
(* were, and so does move_prev() at index 0; anywhere else they return Ok  *)
(* and the cursor is on the next, the previous, node with its index one    *)
(* more, one less.  The lists are never changed.                           *)
MovesByOne ==
  /\ op'.name = "move_next" =>
       /\ UNCHANGED <<next, prev, elem, alloc, len>>
       /\ IF cursor.current = ghost_node(1)
            THEN IsErr(op'.ret) /\ cursor' = cursor
            ELSE /\ op'.ret = Ok
                 /\ cursor'.current = next[cursor.current]
                 /\ cursor'.index = cursor.index + 1
  /\ op'.name = "move_prev" =>
       /\ UNCHANGED <<next, prev, elem, alloc, len>>
       /\ IF cursor.index = 0
            THEN IsErr(op'.ret) /\ cursor' = cursor
            ELSE /\ op'.ret = Ok
                 /\ cursor'.current = prev[cursor.current]
                 /\ cursor'.index = cursor.index - 1

Thm_C13_MoveFailsAtBoundary == [][MovesByOne]_vars

Wit_C13_MoveNextFailedAtGhost ==
  /\ op.name = "move_next"
  /\ IsErr(op.ret)
  /\ cursor.current = ghost_node(1)
  /\ cursor.index = 2
  /\ len[1] = 2

(* C14: move_next_cyclic() and move_prev_cyclic() return nothing and never *)
(* fail.  On a list of n > 0 elements move_next_cyclic takes index i < n   *)
(* to i + 1 and index n, the ghost, to 0; move_prev_cyclic takes i > 0 to  *)
(* i - 1 and 0 to n, the ghost; each takes the cursor back to where the    *)
(* other found it.  On an empty list both leave the cursor at the ghost    *)
(* with index 0.                                                           *)
MovePrevCyclicNow == move_prev_cyclic(CursorM, 1)

MoveNextCyclicNow == move_next_cyclic(CursorM, 1)

CyclicMovesWrap ==
  /\ op'.name = "move_next_cyclic" =>
       /\ op'.ret = Unit
       /\ UNCHANGED <<next, prev, elem, alloc, len>>
       /\ IF len[1] = 0
            THEN cursor' = cursor /\ cursor.current = ghost_node(1) /\ cursor.index = 0
            ELSE /\ cursor'.index = IF cursor.index < len[1] THEN cursor.index + 1 ELSE 0
                 /\ cursor'.current = next[cursor.current]
                 /\ MovePrevCyclicNow'.cur = cursor.current
                 /\ MovePrevCyclicNow'.idx = cursor.index
  /\ op'.name = "move_prev_cyclic" =>
       /\ op'.ret = Unit
       /\ UNCHANGED <<next, prev, elem, alloc, len>>
       /\ IF len[1] = 0
            THEN cursor' = cursor /\ cursor.current = ghost_node(1) /\ cursor.index = 0
            ELSE /\ cursor'.index = IF cursor.index > 0 THEN cursor.index - 1 ELSE len[1]
                 /\ cursor'.current = prev[cursor.current]
                 /\ MoveNextCyclicNow'.cur = cursor.current
                 /\ MoveNextCyclicNow'.idx = cursor.index

Thm_C14_CyclicMovesWrap == [][CyclicMovesWrap]_vars

Wit_C14_WrappedToTheFront ==
  /\ op.name = "move_next_cyclic"
  /\ cursor.index = 0
  /\ cursor.current = next[ghost_node(1)]
  /\ len[1] = 1

\* The node at index j of list 1: the ghost when j is its len.
NodeAt(j) == (NodeSeq(1) \o <<ghost_node(1)>>)[j + 1]

(* C15: on a list of n elements with the cursor at index i,                *)
(* seek_forward(k) returns Ok with the cursor at index i + k when          *)
(* k <= n - i, and otherwise Err(n - i) with the cursor left on the ghost  *)
(* at index n; seek_backward(k) returns Ok with the cursor at index i - k  *)
(* when k <= i, and otherwise Err(i) with the cursor left at index 0.  The *)
(* cursor is never taken back, the lists are not changed and k = 0         *)
(* returns Ok without moving.                                              *)
SeeksStopAtBoundary ==
  /\ op'.name = "seek_forward" =>
       LET n == len[1]
           i == cursor.index
           k == op'.at
       IN  /\ UNCHANGED <<next, prev, elem, alloc, len>>
           /\ k = 0 => op'.ret = Ok /\ cursor' = cursor
           /\ IF k <= n - i
                THEN /\ op'.ret = Ok
                     /\ cursor'.index = i + k
                     /\ cursor'.current = NodeAt(i + k)
                ELSE /\ op'.ret = Err(n - i)
                     /\ cursor'.index = n
                     /\ cursor'.current = ghost_node(1)
  /\ op'.name = "seek_backward" =>
       LET i == cursor.index
           k == op'.at
       IN  /\ UNCHANGED <<next, prev, elem, alloc, len>>
           /\ k = 0 => op'.ret = Ok /\ cursor' = cursor
           /\ IF k <= i
                THEN /\ op'.ret = Ok
                     /\ cursor'.index = i - k
                     /\ cursor'.current = NodeAt(i - k)
                ELSE /\ op'.ret = Err(i)
                     /\ cursor'.index = 0
                     /\ cursor'.current = NodeAt(0)

Thm_C15_SeekStopsAtBoundary == [][SeeksStopAtBoundary]_vars

Wit_C15_SeekForwardFellShort ==
  /\ op.name = "seek_forward"
  /\ op.at = 3
  /\ op.ret = Err(2)
  /\ cursor.index = 3
  /\ cursor.current = ghost_node(1)
  /\ len[1] = 3

(* C16: try_seek_to(target) with target <= len returns Ok and leaves the   *)
(* cursor on the node at index target, the ghost when target is the len,   *)
(* with its index equal to target, wherever the cursor was: left or right  *)
(* of the target, the target nearer to the front or to the ghost, on the   *)
(* target already, target 0, target len, and on the empty list.  seek_to   *)
(* does the same.  The lists are not changed.                              *)
SeeksToTarget ==
  (op'.name \in {"try_seek_to", "seek_to"} /\ op'.at <= len[1]) =>
    /\ op'.ret = IF op'.name = "try_seek_to" THEN Ok ELSE Unit
    /\ cursor'.index = op'.at
    /\ cursor'.current = NodeAt(op'.at)
    /\ UNCHANGED <<next, prev, elem, alloc, len>>

Thm_C16_TrySeekToReachesTarget == [][SeeksToTarget]_vars

Wit_C16_SoughtInsideTheList ==
  /\ op.name = "try_seek_to"
  /\ op.ret = Ok
  /\ op.at = 2
  /\ cursor.index = 2
  /\ len[1] = 3
  /\ cursor.current = NodeAt(2)

(* C17: try_seek_to(target) with target > len returns an error and the     *)
(* cursor stays put: its node and its index are what they were, and the    *)
(* lists are not changed.                                                  *)
TrySeekToStaysPut ==
  (op'.name = "try_seek_to" /\ op'.at > len[1]) =>
    /\ IsErr(op'.ret)
    /\ cursor' = cursor
    /\ UNCHANGED <<next, prev, elem, alloc, len>>

Thm_C17_TrySeekToStaysPut == [][TrySeekToStaysPut]_vars

Wit_C17_StayedInsideTheList ==
  /\ op.name = "try_seek_to"
  /\ IsErr(op.ret)
  /\ op.at = 3
  /\ cursor.index = 1
  /\ len[1] = 2
  /\ cursor.current = NodeAt(1)

(* C18: try_seek_to(target) with target > len reports the target itself,   *)
(* Err(target), and not target - len, how far the target is beyond the     *)
(* len; seek_to with such a target reports no value: it panics.            *)
SeekErrorIsTarget ==
  /\ (op'.name = "try_seek_to" /\ op'.at > len[1]) =>
       /\ op'.ret = Err(op'.at)
       /\ len[1] > 0 => op'.ret # Err(op'.at - len[1])
  /\ (op'.name = "seek_to" /\ op'.at > len[1]) =>
       /\ op'.ret = Panic
       /\ cursor' = cursor

Thm_C18_SeekErrorIsTarget == [][SeekErrorIsTarget]_vars

Wit_C18_ErrorOfThreeOnTwo ==
  /\ op.name = "try_seek_to"
  /\ op.at = 3
  /\ len[1] = 2
  /\ op.ret = Err(3)

\* C18 as it was stated: the error is target - len.
Cex_C18_ErrorIsOvershoot ==
  (op.name \in {"try_seek_to", "seek_to"} /\ cursor.list = 1 /\ op.at > len[1]) =>
    op.ret = Err(op.at - len[1])

(* C19: with the cursor at index i of a list holding s, of n elements,    *)
(* current() returns s[i] when i < n and None exactly when the cursor is   *)
(* on the ghost, i = n; previous() returns s[i-1] when i > 0 and None      *)
(* exactly when i = 0, at the ghost of an empty list too; neither changes  *)
(* the lists or the cursor.                                                *)
ReadsAtCursor ==
  /\ op'.name = "current" =>
       LET s == ElemSeq(1)
           i == cursor.index
       IN  /\ op'.ret = IF i < Len(s) THEN Some(s[i + 1]) ELSE None
           /\ (op'.ret = None) <=> (cursor.current = ghost_node(1))
           /\ UNCHANGED <<next, prev, elem, alloc, len, cursor>>
  /\ op'.name = "previous" =>
       LET s == ElemSeq(1)
           i == cursor.index
       IN  /\ op'.ret = IF i > 0 THEN Some(s[i]) ELSE None
           /\ (op'.ret = None) <=> (i = 0)
           /\ UNCHANGED <<next, prev, elem, alloc, len, cursor>>

SplitsAtCursor ==
  /\ op'.name = "c_split" =>
       LET s == ElemSeq(1)
           i == cursor.index
       IN  IF i < len[1]
             THEN /\ op'.ret = Some(2)
                  /\ ElemSeqP(2) = SubSeqFrom(s, i + 1)
                  /\ NodeSeqP(2) = SubSeqFrom(NodeSeq(1), i + 1)
                  /\ len'[2] = len[1] - i
                  /\ ElemSeqP(1) = SubSeq(s, 1, i)
                  /\ len'[1] = i
                  /\ cursor'.current = ghost_node(1)
                  /\ cursor'.index = i
             ELSE /\ op'.ret = None
                  /\ UNCHANGED <<next, prev, elem, alloc, len, cursor>>
  /\ op'.name = "c_split_before" =>
       LET s == ElemSeq(1)
           i == cursor.index
       IN  IF i > 0
             THEN /\ op'.ret = Some(2)
                  /\ ElemSeqP(2) = SubSeq(s, 1, i)
                  /\ NodeSeqP(2) = SubSeq(NodeSeq(1), 1, i)
                  /\ len'[2] = i
                  /\ ElemSeqP(1) = SubSeqFrom(s, i + 1)
                  /\ len'[1] = len[1] - i
                  /\ cursor'.current = cursor.current
                  /\ cursor'.index = 0
             ELSE /\ op'.ret = None
                  /\ UNCHANGED <<next, prev, elem, alloc, len, cursor>>

Thm_C20_SplitAtCursor == [][SplitsAtCursor]_vars

Wit_C20_SplitOffTheTail ==
  /\ op.name = "c_split"
  /\ op.ret = Some(2)
  /\ ElemSeq(1) = <<0>>
  /\ ElemSeq(2) = <<1, 0>>
  /\ cursor.index = 1
  /\ cursor.current = ghost_node(1)

(* C21: CursorMut::splice(other) with the cursor at index i of a list that *)
(* holds s gives s[0..i] ++ other ++ s[i..], the nodes of other in their   *)
(* order, len grown by the len of other, the cursor on the node it was on  *)
(* and its index i + other.len; other is left with no element; splicing an *)
(* empty list changes nothing.  List::splice_at(at, other) has the same    *)
(* effect on the list for every at in 0..len.                              *)
SplicedAt(l, o, i) ==
  /\ NodeSeqP(l) = SubSeq(NodeSeq(l), 1, i) \o NodeSeq(o) \o SubSeqFrom(NodeSeq(l), i + 1)
  /\ elem' = elem
  /\ alloc' = alloc
  /\ len'[l] = len[l] + len[o]
  /\ len'[o] = 0
  /\ next'[ghost_node(o)] = ghost_node(o)
  /\ prev'[ghost_node(o)] = ghost_node(o)
  /\ len[o] = 0 => UNCHANGED <<next, prev, len>>

SplicesAtCursor ==
  /\ op'.name = "c_splice" =>
       /\ SplicedAt(1, 2, cursor.index)
       /\ op'.ret = Unit
       /\ cursor'.current = cursor.current
       /\ cursor'.index = cursor.index + len[2]
  /\ (op'.name = "splice_at" /\ op'.at <= len[op'.list]) =>
       /\ SplicedAt(op'.list, Other(op'.list), op'.at)
       /\ op'.ret = Unit

Thm_C21_SpliceAtCursor == [][SplicesAtCursor]_vars

Wit_C21_SplicedInTheMiddle ==
  /\ op.name = "c_splice"
  /\ op.at = 1
  /\ cursor.index = 2
  /\ cursor.current = 2
  /\ NodeSeq(1) = <<1, 3, 2>>
  /\ NodeSeq(2) = <<>>

(* C22: for a list L and a position p in 0..len, r = L.split_off(p)        *)
(* followed by L.splice_at(p, r) gives back the ring L had before the      *)
(* split_off: the same nodes in the same order with the same elements, and *)
(* the same len.                                                           *)
SpliceBack(l, p) ==
  [splice_at(ListM', l, p, Other(l)) EXCEPT !.cur = NULL, !.idx = 0, !.ret = Unit, !.links = 0]

SpliceUndoesSplitOff ==
  (op'.name = "split_off" /\ op'.at <= len[op'.list]) =>
    /\ op'.ret = Some(Other(op'.list))
    /\ SpliceBack(op'.list, op'.at) = ListM

Thm_C22_SplitOffSpliceAtInverse == [][SpliceUndoesSplitOff]_vars

Wit_C22_SplitOffInTheMiddle ==
  /\ op.name = "split_off"
  /\ op.list = 1
  /\ op.at = 1
  /\ NodeSeq(1) = <<1>>
  /\ NodeSeq(2) = <<2, 3>>
  /\ NodeSeqOf(splice_at(ListM, 1, 1, 2).next, 1) = <<1, 2, 3>>

(* C23: a.append(&mut b) leaves a holding the nodes of a followed by the   *)
(* nodes of b, and b empty; a.prepend(&mut b) leaves a holding the nodes   *)
(* of b followed by the nodes of a, and b empty; the len of a is the sum   *)
(* of the two lens, an empty a or b included.  A split_off at the join     *)
(* index then takes the two parts apart again: after append,               *)
(* a.split_off(len of a before) returns the nodes of b and gives back the  *)
(* heap of before the append; after prepend, a.split_off(len of b) returns *)
(* the nodes a held before and leaves in a the nodes b held.               *)
Joined(l, o, s) ==
  /\ NodeSeqP(l) = s
  /\ NodeSeqP(o) = <<>>
  /\ next'[ghost_node(o)] = ghost_node(o)
  /\ prev'[ghost_node(o)] = ghost_node(o)
  /\ len'[l] = len[l] + len[o]
  /\ len'[o] = 0
  /\ elem' = elem
  /\ alloc' = alloc

SplitOffAfter(l, at) == split_off(ListM', l, Other(l), at)

AppendJoinsAndSplitOffParts ==
  /\ op'.name = "append" =>
       LET l == op'.list
           o == Other(op'.list)
       IN  /\ Joined(l, o, NodeSeq(l) \o NodeSeq(o))
           /\ SplitOffAfter(l, len[l]).ret = Some(o)
           /\ [SplitOffAfter(l, len[l]) EXCEPT !.cur = NULL, !.idx = 0, !.ret = Unit, !.links = 0] = ListM
  /\ op'.name = "prepend" =>
       LET l == op'.list
           o == Other(op'.list)
           m == SplitOffAfter(l, len[o])
       IN  /\ Joined(l, o, NodeSeq(o) \o NodeSeq(l))
           /\ m.ret = Some(o)
           /\ NodeSeqOf(m.next, o) = NodeSeq(l)
           /\ NodeSeqOf(m.next, l) = NodeSeq(o)
           /\ m.len[o] = len[l]
           /\ m.len[l] = len[o]
           /\ m.elem = elem

ClonesOther ==
  op'.name = "clone_from" =>
    LET l == op'.list
        o == Other(op'.list)
        c == clone(ListM, o, Temp)
    IN  /\ ElemSeqP(l) = ElemSeq(o)
        /\ ElemSeqP(l) = ElemSeqOf(c.next, c.elem, Temp)
        /\ len'[l] = len[o]
        /\ NodeSeqP(o) = NodeSeq(o)
        /\ ElemSeqP(o) = ElemSeq(o)
        /\ len'[o] = len[o]
        /\ Range(NodeSeqP(l)) \cap Range(NodeSeqP(o)) = {}

Cex_C24_CloneFromEqualsClone == [][ClonesOther]_vars

Wit_C24_CloneFromLeftEmpty ==
  /\ op.name = "clone_from"
  /\ op.list = 1
  /\ op.at = 1
  /\ ElemSeq(2) = <<0>>
  /\ ElemSeq(1) = <<>>

(* C25: clearing a list, or dropping it while no destructor panics, runs   *)
(* the destructor of every element once, in front-to-back order, frees     *)
(* every node once, and leaves the list empty: no node it held is linked   *)
(* or allocated afterwards.                                                *)
TearsDownInOrder ==
  (op'.name \in {"clear", "drop"} /\ op'.ret = Unit) =>
    LET l == op'.list
        m == clear(ListM, l)
    IN  /\ m.dropped = ElemSeq(l)
        /\ m.freed = NodeSeq(l)
        /\ NoDup(m.freed)
        /\ m.next = next' /\ m.prev = prev' /\ m.elem = elem'
        /\ alloc' = alloc \ Range(NodeSeq(l))
        /\ \A n \in Range(NodeSeq(l)) : next'[n] = NULL /\ prev'[n] = NULL
        /\ next'[ghost_node(l)] = ghost_node(l)
        /\ prev'[ghost_node(l)] = ghost_node(l)
        /\ len'[l] = 0
        /\ NodeSeqP(Other(l)) = NodeSeq(Other(l))

Thm_C25_TeardownInOrder == [][TearsDownInOrder]_vars

Wit_C25_DroppedThree ==
  /\ op.name = "drop"
  /\ op.ret = Unit
  /\ op.at = 3
  /\ alloc = {}
  /\ len[op.list] = 0

(* C26: dropping a list frees every node of it once, also when the         *)
(* destructor of an element panics during the drop: after the drop no node *)
(* the list held is allocated.                                             *)
DropFreesEveryNode ==
  op'.name = "drop" => alloc' = alloc \ Range(NodeSeq(op'.list))

Cex_C26_DropFreesUnderPanic == [][DropFreesEveryNode]_vars

Wit_C26_PanicLeftTwoNodes ==
  /\ op.name = "drop"
  /\ op.ret = Panic
  /\ op.at = 3
  /\ Cardinality(alloc) = 2
  /\ len[1] = 0 /\ len[2] = 0

(* C27: a Drain over a list of n elements has yielded, after k calls of    *)
(* next() that returned an element, the first k elements of the list in    *)
(* order, the list holding the other n - k; once the Drain is dropped,     *)
(* after any k in 0..n, the list is empty: its len is 0 and its ghost is   *)
(* linked to itself.                                                       *)
Thm_C27_DrainEmptiesTheList ==
  /\ iter.list = 1 =>
       /\ iter.front \o ElemSeq(1) = input
       /\ len[1] = Len(input) - Len(iter.front)
  /\ op.name = "Drain::next" =>
       IF op.ret = None THEN iter.front = input
                        ELSE op.ret = Some(input[Len(iter.front)])
  /\ op.name = "Drain::drop" =>
       /\ op.at \in 0..Len(input)
       /\ iter.front = SubSeq(input, 1, op.at)
       /\ len[1] = 0
       /\ next[ghost_node(1)] = ghost_node(1)
       /\ prev[ghost_node(1)] = ghost_node(1)
       /\ alloc = {}

Wit_C27_DroppedAfterOneOfThree ==
  /\ op.name = "Drain::drop"
  /\ op.at = 1
  /\ input = <<0, 1, 1>>
  /\ iter.front = <<0>>
  /\ len[1] = 0

(* C28: an Iter over a list of n elements that has yielded f elements by   *)
(* next() and b by next_back(), in any interleaving, has yielded the first *)
(* f elements in order and the last b in reverse order, f + b <= n, so     *)
(* every element at most once and, when it is exhausted, exactly once; its *)
(* range is the nodes not yet yielded and its len their number, n - f - b; *)
(* next() and next_back() return None only when f + b = n, and then both   *)
(* return None and leave the Iter as it is, on every later call.  IterMut  *)
(* has the same next() and next_back().                                    *)
IterNow == [start |-> iter.start, end |-> iter.end, len |-> iter.len]

Thm_C28_IterYieldsEachOnce ==
  iter.list = 1 =>
    LET n == len[1]
        f == Len(iter.front)
        b == Len(iter.back)
        ring == NodeSeq(1) \o <<ghost_node(1)>>
    IN  /\ f + b <= n
        /\ iter.len = n - f - b
        /\ iter.start = ring[f + 1]
        /\ iter.end = ring[n - b + 1]
        /\ iter.front = [i \in 1..f |-> elem[ring[i]]]
        /\ iter.back = [i \in 1..b |-> elem[ring[n + 1 - i]]]
        /\ (op.name \in {"Iter::next", "Iter::next_back"} /\ op.ret = None) => f + b = n
        /\ (op.name = "Iter::next" /\ op.ret # None) => op.ret = Some(elem[ring[f]])
        /\ (op.name = "Iter::next_back" /\ op.ret # None) => op.ret = Some(elem[ring[n + 1 - b]])
        /\ f + b = n =>
             /\ Iter_next(ListM, IterNow) = [i |-> IterNow, ret |-> None]
             /\ Iter_next_back(ListM, IterNow) = [i |-> IterNow, ret |-> None]

Wit_C28_ExhaustedFromBothEnds ==
  /\ op.name = "Iter::next"
  /\ op.ret = None
  /\ input = <<0, 1, 1>>
  /\ iter.front = <<0, 1>>
  /\ iter.back = <<1>>
  /\ iter.len = 0

(* C29: CursorIter::next() with the cursor at index i of a list holding s, *)
(* of n elements, yields s[i] and moves the cursor to index i + 1, or, at  *)
(* the ghost (i = n), yields None and moves to the front: n + 1 calls in a *)
(* row yield the elements from the cursor on, None once, then the elements *)
(* before the cursor.  CursorBackIter::next() moves the cursor one node    *)
(* back, from the front to the ghost, and yields the element there, None   *)
(* at the ghost.  rev() keeps the cursor, so the next() after a rev()      *)
(* yields what the next() before it yielded.  On an empty list every call  *)
(* yields None.  No call changes the list.                                 *)
RECURSIVE Lap(_, _)
Lap(m, k) ==
  IF k = 0 THEN <<>>
  ELSE <<CursorIter_next(m, 1).ret>> \o Lap(CursorIter_next(m, 1), k - 1)

Yield(s, j) == IF j < Len(s) THEN Some(s[j + 1]) ELSE None

CursorItersCycle ==
  LET s == ElemSeq(1)
      i == cursor.index
      n == len[1]
  IN  /\ op'.name = "CursorIter::next" =>
           /\ op'.ret = Yield(s, i)
           /\ cursor'.index = (i + 1) % (n + 1)
           /\ cursor'.current = NodeAt(cursor'.index)
           /\ Lap(CursorM, n + 1) = [k \in 1..(n + 1) |-> Yield(s, (i + k - 1) % (n + 1))]
           /\ n = 0 => op'.ret = None
           /\ op.name = "CursorBackIter::next" => op'.ret = op.ret
           /\ UNCHANGED <<next, prev, elem, alloc, len>>
      /\ op'.name = "CursorBackIter::next" =>
           /\ cursor'.index = (i + n) % (n + 1)
           /\ cursor'.current = NodeAt(cursor'.index)
           /\ op'.ret = Yield(s, cursor'.index)
           /\ n = 0 => op'.ret = None
           /\ op.name = "CursorIter::next" => op'.ret = op.ret
           /\ UNCHANGED <<next, prev, elem, alloc, len>>

Thm_C29_CursorItersCycle == [][CursorItersCycle]_vars

Wit_C29_NoneAtTheGhostThenFront ==
  /\ op.name = "CursorIter::next"
  /\ op.ret = None
  /\ len[1] = 3
  /\ cursor.index = 0
  /\ cursor.current = front_node(ListM, 1)

(* C30: with the len tracked, List::remove(at) panics exactly when         *)
(* at >= len, and cursor_mut(at) (cursor(at) is the same code),            *)
(* split_off(at) and splice_at(at, other) panic exactly when at > len; the *)
(* panic comes before any change: the ring, the elements and the len of    *)
(* the list are those of before the call, and no cursor is made.           *)
RingKept(l) ==
  /\ NodeSeqP(l) = NodeSeq(l)
  /\ ElemSeqP(l) = ElemSeq(l)
  /\ len'[l] = len[l]
  /\ \A x \in Range(NodeSeq(l)) \cup {ghost_node(l)} :
       next'[x] = next[x] /\ prev'[x] = prev[x]

PanicsBeforeAnyChange ==
  LET l == op'.list
  IN  /\ op'.name = "remove" => (op'.ret = Panic <=> op'.at >= len[l])
      /\ op'.name \in {"cursor_mut", "split_off", "splice_at"} =>
           (op'.ret = Panic <=> op'.at > len[l])
      /\ (op'.name \in {"remove", "cursor_mut", "split_off", "splice_at"} /\ op'.ret = Panic) =>
           /\ RingKept(l)
           /\ cursor' = NoCursor
           /\ op'.name # "splice_at" => UNCHANGED <<next, prev, elem, alloc, len>>

Thm_C30_PanicsBeforeAnyChange == [][PanicsBeforeAnyChange]_vars

Wit_C30_SplitOffPastTheEnd ==
  /\ op.name = "split_off"
  /\ op.ret = Panic
  /\ op.list = 1
  /\ op.at = 3
  /\ NodeSeq(1) = <<1, 2>>
  /\ len[1] = 2

BorrowDiscipline ==
  /\ cursor'.list = 1 => readers'.list = 0
  /\ cursor'.list = 0 => (readers'.cursor_mut = 0 /\ readers'.view = 0)
  /\ (op'.name = "cursor_mut" /\ op'.ret # Panic) =>
       (cursor.list = 0 /\ readers = NoReaders)
  /\ op'.name \in {"push_back", "pop_front", "front", "cursor"} => cursor.list = 0
  /\ op'.name \in {"push_back", "pop_front"} => readers.list = 0
  /\ op'.name \in {"move_next", "c_insert", "cursor_drop", "into_cursor"} =>
       (cursor.list = 1 /\ readers.cursor_mut = 0 /\ readers.view = 0)
  /\ op'.name \in {"as_cursor", "view", "current"} => cursor.list = 1

Cex_C32_EndsKeepTheCursor ==
  op.name \in {"c_push_front", "c_pop_front", "c_push_back", "c_pop_back"} =>
    /\ cursor.current \in alloc \cup {ghost_node(1)}
    /\ cursor.index = Steps(next[ghost_node(1)], cursor.current, MaxNodes + 1)
    /\ (cursor.index = len[1]) <=> (cursor.current = ghost_node(1))

\* pop_back with the cursor on the last element: the cursor is left on the
\* node that was freed.
Wit_C32_CursorOnTheFreedNode ==
  /\ op.name = "c_pop_back"
  /\ op.ret = Some(1)
  /\ op.at = 1
  /\ len[1] = 1
  /\ cursor.index = 1
  /\ cursor.current \notin alloc \cup {ghost_node(1)}

(* C33: in every call reached through the List and CursorMut operations,   *)
(* the preconditions asserted in debug builds hold: attach_node and        *)
(* attach_nodes are called with adjacent positions (prev.next = next and   *)
(* next.prev = prev), and every DetachedNodes is made with a len >= 1 that *)
(* is the number of nodes of front..=back.                                 *)
Cex_C33_DebugAssertsHold == failed = {}

\* push_back through a cursor on the ghost of the empty list, then
\* split_before: the DetachedNodes of the one node is made with len 0.
Wit_C33_DetachedNodesOfLenZero ==
  /\ op.name = "c_split_before"
  /\ op.ret = Some(2)
  /\ failed = {"len > 0", "len of front..=back"}
  /\ NodeSeq(2) = <<1>>
  /\ len[2] = 0
  /\ len[1] = 1

(* C34: nodes are never shared, duplicated or lost: after every call each  *)
(* live element node is in the ring of exactly one list, once; and split,  *)
(* split_before, splice, append, prepend, split_off and splice_at (when it *)
(* does not panic) conserve the elements of the two lists: no node is      *)
(* allocated or freed and each node keeps its element, so every element of *)
(* the lists before the call is in exactly one of the lists after it, and  *)
(* nothing else is.                                                        *)
InOneRing ==
  LET s1 == NodeSeq(1)
      s2 == NodeSeq(2)
  IN  /\ Range(s1) \cup Range(s2) = alloc
      /\ Len(s1) + Len(s2) = Cardinality(alloc)

NodesConserved ==
  (/\ op'.name \in {"c_split", "c_split_before", "c_splice", "append",
                     "prepend", "split_off", "splice_at"}
   /\ op'.ret # Panic) =>
    /\ alloc' = alloc
    /\ elem' = elem

Thm_C34_NodesConserved == []InOneRing /\ [][NodesConserved]_vars

Wit_C34_SplicedTwoIntoOne ==
  /\ op.name = "c_splice"
  /\ op.at = 2
  /\ cursor.index = 2
  /\ NodeSeq(1) = <<2, 3, 1>>
  /\ NodeSeq(2) = <<>>
  /\ alloc = {1, 2, 3}

(* C35: split, split_before, splice, append and prepend rewrite only the   *)
(* links at the boundaries: a link between two nodes of the moved chain,   *)
(* and a link between two nodes of the list the chain leaves or joins      *)
(* other than the link at the insertion point, is the same before and      *)
(* after, in next and in prev, and so is every element, for every length   *)
(* of the moved chain.                                                     *)
LinksKept(l, moved, cut) ==
  \A x \in alloc \cup {ghost_node(l)} :
    LET y == next[x]
    IN  ((x \in moved /\ y \in moved) \/ (x \notin moved /\ y \notin moved /\ <<x, y>> # cut)) =>
          (next'[x] = y /\ prev'[y] = x)

OnlyBoundaryLinks ==
  LET l == op'.list
      g == ghost_node(op'.list)
      o == Other(op'.list)
  IN  /\ op'.name \in {"c_split", "c_split_before"} =>
           (elem' = elem /\ LinksKept(l, Range(NodeSeqP(o)), <<NULL, NULL>>))
      /\ op'.name = "c_splice" =>
           (elem' = elem /\ LinksKept(l, Range(NodeSeq(o)), <<prev[cursor.current], cursor.current>>))
      /\ op'.name = "append" =>
           (elem' = elem /\ LinksKept(l, Range(NodeSeq(o)), <<prev[g], g>>))
      /\ op'.name = "prepend" =>
           (elem' = elem /\ LinksKept(l, Range(NodeSeq(o)), <<g, next[g]>>))

Thm_C35_OnlyBoundaryLinks == [][OnlyBoundaryLinks]_vars

Wit_C35_PrependedTwoBeforeOne ==
  /\ op.name = "prepend"
  /\ op.list = 2
  /\ op.at = 2
  /\ NodeSeq(2) = <<1, 2, 3>>
  /\ NodeSeq(1) = <<>>

(* C36: sort, sort_by and sort_by_key only relink the nodes of the list:   *)
(* the ring from the ghost holds the same set of nodes, every node holds   *)
(* the element it held, the len is the same, no node is allocated or       *)
(* freed, and no link outside the ring of the list is written.             *)
SortOnlyRelinks ==
  op'.name \in SortKinds =>
    \A l \in {op'.list} :
      \A ring \in {Range(NodeSeq(l)) \cup {ghost_node(l)}} :
        /\ UNCHANGED <<elem, alloc, len>>
        /\ Range(NodeSeqP(l)) \cup {ghost_node(l)} = ring
        /\ next'[prev'[ghost_node(l)]] = ghost_node(l)
        /\ \A x \in Nodes \ ring : next'[x] = next[x] /\ prev'[x] = prev[x]

Thm_C36_SortOnlyRelinks == [][SortOnlyRelinks]_vars

Wit_C36_NineNodesRelinked ==
  /\ op.name = "sort_by"
  /\ len[1] = 9
  /\ alloc = 1..9
  /\ NodeSeq(1) = <<7, 8, 9, 4, 5, 6, 1, 2, 3>>
  /\ \A x \in 1..9 : elem[x] = IF x <= 3 THEN 0 - 1 ELSE IF x <= 6 THEN 0 ELSE 1

(* C37: for every finite list and every deterministic less, those that are *)
(* not a strict weak order among them (not transitive, or true on equal    *)
(* elements), sort_by terminates and leaves the ring well formed with the  *)
(* ghost in place, holding the nodes it held, each once, with their        *)
(* elements and the same len: a permutation of the input, in an order that *)
(* is not specified.  The list is the only one that holds nodes: next is   *)
(* after the sort a one-to-one map of its nodes and its ghost onto         *)
(* themselves with prev its inverse, and the walk from the ghost meets as  *)
(* many nodes as there are before it is back at the ghost, which is all of *)
(* them, each once.                                                        *)
SortByAnyPermutes ==
  op'.name \in LessKinds =>
    /\ \A x \in alloc \cup {ghost_node(1)} :
         /\ next'[x] \in alloc \cup {ghost_node(1)}
         /\ prev'[next'[x]] = x
    /\ Len(NodeSeqP(1)) = Cardinality(alloc)
    /\ Len(NodeSeq(1)) = Cardinality(alloc)
    /\ UNCHANGED <<elem, alloc, len>>

Thm_C37_SortByAnyLess == [][SortByAnyPermutes]_vars

Wit_C37_CyclicLessOnNine ==
  /\ op.name = "less_cyclic"
  /\ len[1] = 9
  /\ {elem[x] : x \in 1..9} = SortValues
  /\ NodeSeq(1) # <<1, 2, 3, 4, 5, 6, 7, 8, 9>>
  /\ next[9] = 1

Min(a, b) == IF a <= b THEN a ELSE b

Abs(a) == IF a < 0 THEN 0 - a ELSE a

SeekFollowsMinLinks ==
  (op'.name = "try_seek_to" /\ op'.at <= len[1]) =>
    LET i == cursor.index
        target == op'.at
    IN  /\ try_seek_to(CursorM, 1, target).links =
             IF target = i THEN 0
             ELSE Min(Abs(target - i), Min(target + 1, len[1] - target))
        /\ cursor'.index = target
        /\ cursor'.current = NodeAt(target)

MergeRangeRelocates ==
  op'.name \in SortKinds =>
    \A log \in {merge_sort(ListM, 1, op'.name).merges} :
      \A i \in 1..Len(log) :
        IF log[i].what = "relocation"
          THEN /\ log[i].run >= 1
               /\ log[i].maximal
               /\ log[i].placed
               /\ log[i].sorted
          ELSE log[i].first

Thm_C39_MergeRangeRelocates == [][MergeRangeRelocates]_vars

\* [0, 0, 1, 1 | -1, -1, 0, 1, 1] sorted: the run of the two -1 (nodes 5, 6)
\* went before node 1 in one relocation, then node 7 alone before node 3,
\* and the merge stopped at node 8.
Wit_C39_RunOfTwoRelocated ==
  /\ op.name = "sort"
  /\ len[1] = 9
  /\ alloc = 1..9
  /\ NodeSeq(1) = <<5, 6, 1, 2, 7, 3, 4, 8, 9>>
  /\ \A x \in 1..9 :
       elem[x] = IF x \in {5, 6} THEN 0 - 1 ELSE IF x \in {1, 2, 7} THEN 0 ELSE 1

====
